---- MODULE Spec2Model ----
(***************************************************************************)
(* Model of the BitNet accelerator offload driver of de10nano_bitnet:      *)
(* the register protocol of fpga_bitlinear (bitnet_fpga.h), run_test       *)
(* (bitnet_test_common.h) and fpga_layer (mnist_inference.c), the polling  *)
(* primitive wait_done / fpga_wait_done, and the accelerator they drive.   *)
(*                                                                         *)
(* A 32-bit word (a register, a DDR3 word) is represented by the signed    *)
(* reading of its bit pattern, an integer in [-2^31, 2^31): the casts      *)
(* (uint32_t)x and (int32_t)x of a 32-bit x keep the bit pattern and so    *)
(* keep the representation, while the 8-bit casts change it.               *)
(*                                                                         *)
(* The result register array (1024 words) and the caller's output buffer   *)
(* are represented by what was stored into them: the register array by the *)
(* jobs that completed, the buffer by the stores of the driver, each in    *)
(* order.  ResWord and BufAt give the word an index holds.                 *)
(***************************************************************************)
EXTENDS Integers, Sequences, FiniteSets, TLC

VARIABLES
    call,        \* the driver function that is executing
    args,        \* its arguments
    local,       \* its local variables that the other variables do not hold
    pc,          \* its position
    i,           \* loop index of the activation loop
    rows_done,   \* fpga_bitlinear: rows_done
    tile_m,      \* fpga_bitlinear: tile_m
    timeout_us,  \* wait_done: the remaining budget
    wret,        \* <<v>> once wait_done has returned v, << >> before
    results,     \* the caller's output buffer: the stores made into it
    ret,         \* <<v>> once the function has returned v, << >> before
    cycles_out,  \* fpga_layer: *cycles_out
    reg,         \* configuration registers, by byte offset
    act,         \* activation register array, by index
    res,         \* result register array: the jobs that completed
    hw,          \* the accelerator: busy, done, the job it latched
    ddr3,        \* words of the weight region written by the host
    log,         \* the bus accesses of the call, in order
    stderr       \* the messages the call printed to stderr

vars == <<call, args, local, pc, i, rows_done, tile_m, timeout_us, wret, results, ret,
          cycles_out, reg, act, res, hw, ddr3, log, stderr>>

-----------------------------------------------------------------------------
(* Register map and hardware parameters.                                   *)

REG_CTRL == 0
REG_STATUS == 4
REG_WEIGHT_BASE == 8
REG_DIM_M == 12
REG_DIM_K == 16
REG_SHIFT_AMT == 20
REG_PERF_CYCLES == 24
REG_ACT_BASE == 128
\* REG_RES_BASE of bitnet_fpga.h (0x4000) and of bitnet_test_common.h (0x2000)
REG_RES_BASE == 16384
TC_REG_RES_BASE == 8192

FPGA_NUM_PES == 128
FPGA_MAX_DIM_M == 1024
FPGA_BYTES_PER_BEAT == 32
\* NUM_PES of bitnet_test_common.h and the 16 bytes of its 128-bit tile
NUM_PES == 64
TC_BYTES_PER_TILE == 16
\* 0x30000000
DDR3_BASE == 805306368

-----------------------------------------------------------------------------
(* Bounds of the model.                                                    *)

\* largest input dimension K
MaxK == 2
\* fpga_bitlinear: M ranges over t * FPGA_MAX_DIM_M + e with t <= MaxTiles, |e| <= 1
MaxTiles == 2
\* run_test, fpga_layer: largest M
MaxRunM == 2
\* largest shift amount passed to run_test and fpga_layer
MaxShift == 1
\* STATUS reads a wait makes inside a driver call before it gives up
\* (the source's budgets are 1000000, 500000 and 2000000 us at 10 us a read)
MaxPolls == 1
\* wait_done on its own: timeout_us ranges over -MaxWaitUs .. MaxWaitUs
MaxWaitUs == 25

-----------------------------------------------------------------------------
(* Machine integers.                                                       *)

Min(a, b) == IF a < b THEN a ELSE b

\* 16-bit halves of a word and the word of two halves
Hi16(w) == (w \div 65536) % 65536
Lo16(w) == w % 65536
MkWord(hi, lo) == IF hi >= 32768 THEN (hi - 65536) * 65536 + lo ELSE hi * 65536 + lo

\* a + b in 32-bit unsigned arithmetic
AddU32(a, b) ==
    LET lo == Lo16(a) + Lo16(b)
        hi == Hi16(a) + Hi16(b) + (lo \div 65536)
    IN  MkWord(hi % 65536, lo % 65536)

\* a * b in 32-bit unsigned arithmetic
MulU32(a, b) ==
    LET ll == Lo16(a) * Lo16(b)
        mid == ((Hi16(a) * Lo16(b)) % 65536) + ((Lo16(a) * Hi16(b)) % 65536) + (ll \div 65536)
    IN  MkWord(mid % 65536, ll % 65536)

\* mutant of U8: the value is sign-extended to 32 bits, (uint32_t)x
U8_sign_extended(x) == x

\* (uint8_t)x and (int8_t)x
U8(x) == x % 256
I8(x) == IF x % 256 >= 128 THEN (x % 256) - 256 ELSE x % 256

\* bit n of a word
Bit(w, n) == (w \div (2 ^ n)) % 2

-----------------------------------------------------------------------------
(* The two accelerator builds the drivers are written for: bitnet_fpga.h   *)
(* (128 lanes, 32-byte tiles, raw accumulators at 0x4000) and              *)
(* bitnet_test_common.h (64 lanes, 16-byte tiles, shifted and clamped      *)
(* results at 0x2000).                                                     *)

Build(c) ==
    IF c \in {"fpga_bitlinear", "fpga_wait_done", "pack_weights_128", "write_test_weights"}
    THEN [pes |-> FPGA_NUM_PES, tile_bytes |-> FPGA_BYTES_PER_BEAT,
          res_base |-> REG_RES_BASE, raw |-> TRUE]
    ELSE [pes |-> NUM_PES, tile_bytes |-> TC_BYTES_PER_TILE,
          res_base |-> TC_REG_RES_BASE, raw |-> FALSE]

\* (K + NUM_PES - 1) / NUM_PES
TilesPerRow(K, pes) == (K + pes - 1) \div pes

-----------------------------------------------------------------------------
(* The weight region.  ddr3 holds the words the host wrote, by word index  *)
(* from DDR3_BASE; a word never written holds what was loaded before the   *)
(* call, one of a few ternary patterns chosen by its address.              *)

\* 0x00000000, 0x55555555, 0xAAAAAAAA, 0x66666666, 0x99999999
LoadedPatterns == <<0, 1431655765, -1431655766, 1717986918, -1717986919>>

LoadedWord(a) == LoadedPatterns[((a \div 16) % 5) + 1]

DdrWord(a) ==
    LET w == (a - DDR3_BASE) \div 4
    IN  IF w \in DOMAIN ddr3 THEN ddr3[w] ELSE LoadedWord(a)

\* 00 = 0, 01 = +1, 10 = -1, 11 = reserved
DecodeWeight(code) == CASE code = 1 -> 1 [] code = 2 -> -1 [] OTHER -> 0

-----------------------------------------------------------------------------
(* The accelerator.                                                        *)

StatusWord(h) == (IF h.busy THEN 1 ELSE 0) + (IF h.done THEN 2 ELSE 0)

\* the job a start pulse latches from the configuration registers
LatchJob(r) ==
    [base |-> r[REG_WEIGHT_BASE], m |-> r[REG_DIM_M],
     k |-> r[REG_DIM_K], shift |-> r[REG_SHIFT_AMT]]

\* What a write of v to CTRL does.  A pulse that arrives while a job is
\* running is either dropped or restarts the accelerator with the new job.
HwStartOutcomes(h, r, v) ==
    LET started == [h EXCEPT !.busy = TRUE, !.done = FALSE, !.job = LatchJob(r)]
    IN  IF Bit(v, 0) = 0 THEN {h}
        ELSE IF h.busy THEN {h, started}
        ELSE {started}

\* address of row r of a weight matrix at base, for input dimension k
HwRowAddr(b, base, r, k) == base + r * TilesPerRow(k, b.pes) * b.tile_bytes

\* weight of column c in the row at rowaddr
HwWeight(b, rowaddr, c) ==
    LET lane == c % b.pes
        a == rowaddr + (c \div b.pes) * b.tile_bytes + 4 * (lane \div 16)
    IN  DecodeWeight((DdrWord(a) \div (4 ^ (lane % 16))) % 4)

\* the sum of weight * activation over the columns lo .. hi - 1 of a row,
\* added up by halves
RECURSIVE HwDotRange(_, _, _, _, _)
HwDotRange(b, rowaddr, a, lo, hi) ==
    IF hi <= lo THEN 0
    ELSE IF hi = lo + 1 THEN HwWeight(b, rowaddr, lo) * I8(a[lo])
    ELSE LET mid == (lo + hi) \div 2
         IN  HwDotRange(b, rowaddr, a, lo, mid) + HwDotRange(b, rowaddr, a, mid, hi)

HwDot(b, rowaddr, a, k) == HwDotRange(b, rowaddr, a, 0, k)

\* mutant of ArithShift: the division rounds toward zero
ArithShift_toward_zero(acc, s) ==
    IF acc < 0 THEN -((-acc) \div (2 ^ s)) ELSE acc \div (2 ^ s)

\* mutant of Clamp8: the limits are one too wide
Clamp8_wide(x) == IF x > 128 THEN 127 ELSE IF x < -129 THEN -128 ELSE x

\* acc >> shift (arithmetic) and the clamp to INT8
ArithShift(acc, s) == acc \div (2 ^ s)
Clamp8(x) == IF x > 127 THEN 127 ELSE IF x < -128 THEN -128 ELSE x

\* the word the accelerator leaves in result register r of a job
HwRowResult(b, job, a, r) ==
    LET acc == HwDot(b, HwRowAddr(b, job.base, r, job.k), a, job.k)
    IN  IF b.raw THEN acc ELSE Clamp8(ArithShift(acc, job.shift))

\* the result register array after a job over the activations a: the job's
\* rows overwrite registers 0 .. m-1, the others keep what they held
HwResults(job, a, old) == Append(old, [job |-> job, act |-> a])

Max(S) == CHOOSE x \in S : \A y \in S : y <= x

\* the word result register r holds (0 after reset)
ResWord(b, regs, r) ==
    LET over == {n \in 1 .. Len(regs) : r < regs[n].job.m}
        last == regs[Max(over)]
    IN  IF over = {} \/ r < 0 THEN 0
        ELSE HwRowResult(b, last.job, last.act, r)

\* The running job completes: results appear, BUSY falls, DONE rises.
HwFinish ==
    /\ hw.busy
    /\ hw' = [hw EXCEPT !.busy = FALSE, !.done = TRUE,
                        !.cycles = hw.job.m * TilesPerRow(hw.job.k, Build(call).pes) + 1]
    /\ res' = HwResults(hw.job, act, res)
    /\ UNCHANGED <<call, args, local, pc, i, rows_done, tile_m, timeout_us, wret, results,
                   ret, cycles_out, reg, act, ddr3, log, stderr>>

-----------------------------------------------------------------------------
(* Register access.                                                        *)

ActIndex(off) == (off - REG_ACT_BASE) \div 4

\* fpga_bitnet[offset / 4] = val
fpga_reg_write(off, val) ==
    /\ log' = Append(log, <<"w", off, val>>)
    /\ hw' \in (IF off = REG_CTRL THEN HwStartOutcomes(hw, reg, val) ELSE {hw})
    /\ reg' = IF off \in DOMAIN reg THEN [reg EXCEPT ![off] = val] ELSE reg
    /\ act' = IF off >= REG_ACT_BASE /\ ActIndex(off) \in DOMAIN act
              THEN [act EXCEPT ![ActIndex(off)] = val] ELSE act
    /\ UNCHANGED <<res, ddr3>>

\* return fpga_bitnet[offset / 4]
fpga_reg_read(off) ==
    IF off = REG_STATUS THEN StatusWord(hw)
    ELSE IF off = REG_PERF_CYCLES THEN hw.cycles
    ELSE IF off \in DOMAIN reg THEN reg[off]
    ELSE IF off >= Build(call).res_base
         THEN ResWord(Build(call), res, (off - Build(call).res_base) \div 4)
    ELSE 0

\* a store through the mapping of the weight region in place of g_bitnet
reg_write_to_ddr3(off, val) ==
    /\ log' = Append(log, <<"w", off, val>>)
    /\ ddr3' = [w \in DOMAIN ddr3 \cup {off \div 4} |-> IF w = off \div 4 THEN val ELSE ddr3[w]]
    /\ UNCHANGED <<reg, act, res, hw>>

\* reg_write(g_bitnet, offset, val) and reg_read(g_bitnet, offset)
reg_write(off, val) == fpga_reg_write(off, val)
reg_read(off) == fpga_reg_read(off)

-----------------------------------------------------------------------------
(* wait_done / fpga_wait_done: poll STATUS until DONE or the budget is     *)
(* spent.  The caller enters with pc = "wait" and timeout_us set; the      *)
(* function leaves with pc = "waited" and wret = <<0>> or <<-1>>.          *)

\* mutant of DoneBit: the test reads the BUSY bit, st & 0x1
DoneBit_busy(st) == Bit(st, 0) = 1

\* st & 0x2
DoneBit(st) == Bit(st, 1) = 1

\* one iteration of while (timeout_us > 0): read STATUS, return 0 on DONE,
\* else usleep(10) and timeout_us -= 10
fpga_wait_done_poll ==
    /\ pc = "wait"
    /\ timeout_us > 0
    /\ LET st == fpga_reg_read(REG_STATUS)
       IN  /\ log' = Append(log, <<"r", REG_STATUS, st>>)
           /\ IF DoneBit(st)
              THEN /\ wret' = <<0>>
                   /\ pc' = "waited"
                   /\ UNCHANGED timeout_us
              ELSE /\ timeout_us' = timeout_us - 10
                   /\ UNCHANGED <<wret, pc>>
    /\ UNCHANGED <<call, args, local, i, rows_done, tile_m, results, ret, cycles_out,
                   reg, act, res, hw, ddr3, stderr>>

\* the loop condition fails: return -1
fpga_wait_done_expire ==
    /\ pc = "wait"
    /\ timeout_us <= 0
    /\ wret' = <<-1>>
    /\ pc' = "waited"
    /\ UNCHANGED <<call, args, local, i, rows_done, tile_m, timeout_us, results, ret,
                   cycles_out, reg, act, res, hw, ddr3, log, stderr>>

-----------------------------------------------------------------------------
(* The device after reset, and the buffers of a call.                      *)

ConfigRegs == {REG_WEIGHT_BASE, REG_DIM_M, REG_DIM_K, REG_SHIFT_AMT}

ResetRegs == [o \in ConfigRegs |-> 0]
ResetAct == [n \in 0 .. MaxK - 1 |-> 0]
ResetRes == << >>
IdleJob == [base |-> DDR3_BASE, m |-> 1, k |-> 1, shift |-> 0]
IdleHw == [busy |-> FALSE, done |-> FALSE, job |-> IdleJob, cycles |-> 0]

-----------------------------------------------------------------------------
(* wait_done called on its own, against an accelerator in any state.       *)

WaitCalls == {"wait_done", "fpga_wait_done"}

WaitInit ==
    /\ call \in WaitCalls
    /\ args \in [timeout_us : (-MaxWaitUs) .. MaxWaitUs]
    /\ timeout_us = args.timeout_us
    /\ pc = "wait"
    /\ wret = << >>
    /\ ret = << >>
    /\ local = << >>
    /\ i = 0 /\ rows_done = 0 /\ tile_m = 0
    /\ results = << >>
    /\ cycles_out = 0
    /\ reg = ResetRegs /\ act = ResetAct /\ res = ResetRes
    /\ hw \in [busy : BOOLEAN, done : BOOLEAN, job : {IdleJob}, cycles : {0}]
    /\ ddr3 = << >>
    /\ log = << >>
    /\ stderr = << >>

WaitNext == fpga_wait_done_poll \/ fpga_wait_done_expire \/ HwFinish

WaitSpec == WaitInit /\ [][WaitNext]_vars

\* The calling process keeps running: usleep returns and the loop goes on.
WaitFairSpec ==
    /\ WaitSpec
    /\ WF_vars(fpga_wait_done_poll)
    /\ WF_vars(fpga_wait_done_expire)

-----------------------------------------------------------------------------
(* fpga_bitlinear(activations, K, weight_base, M, stride, results).        *)

\* mutant of TileM: the clamp to FPGA_MAX_DIM_M is missing
TileM_unclamped(M, done) == M - done

\* int tile_m = M - rows_done; if (tile_m > FPGA_MAX_DIM_M) tile_m = FPGA_MAX_DIM_M
TileM(M, done) == Min(M - done, FPGA_MAX_DIM_M)

\* mutant of TileWeightBase: the row offset is not scaled by the stride
TileWeightBase_unscaled(weight_base, done, stride) == AddU32(weight_base, done)

\* weight_base + (uint32_t)rows_done * stride
TileWeightBase(weight_base, done, stride) == AddU32(weight_base, MulU32(done, stride))

\* the budget handed to the wait of a driver call
WaitBudgetUs == 10 * MaxPolls

\* for (i = 0; i < K; i++) fpga_reg_write(REG_ACT_BASE + i * 4, (uint32_t)(uint8_t)activations[i])
fpga_bitlinear_write_act ==
    /\ call = "fpga_bitlinear"
    /\ pc = "bl_act"
    /\ i < args.K
    /\ fpga_reg_write(REG_ACT_BASE + i * 4, U8(args.activations[i]))
    /\ i' = i + 1
    /\ UNCHANGED <<call, args, local, pc, rows_done, tile_m, timeout_us, wret, results, ret,
                   cycles_out, stderr>>

\* mutant of fpga_bitlinear_set_k: the activation loop stops one short
fpga_bitlinear_set_k_early ==
    /\ call = "fpga_bitlinear"
    /\ pc = "bl_act"
    /\ i >= args.K - 1
    /\ fpga_reg_write(REG_DIM_K, args.K)
    /\ pc' = "bl_shift"
    /\ UNCHANGED <<call, args, local, i, rows_done, tile_m, timeout_us, wret, results, ret,
                   cycles_out, stderr>>

\* fpga_reg_write(REG_DIM_K, (uint32_t)K)
fpga_bitlinear_set_k ==
    /\ call = "fpga_bitlinear"
    /\ pc = "bl_act"
    /\ i >= args.K
    /\ fpga_reg_write(REG_DIM_K, args.K)
    /\ pc' = "bl_shift"
    /\ UNCHANGED <<call, args, local, i, rows_done, tile_m, timeout_us, wret, results, ret,
                   cycles_out, stderr>>

\* fpga_reg_write(REG_SHIFT_AMT, 0); int rows_done = 0
fpga_bitlinear_set_shift ==
    /\ call = "fpga_bitlinear"
    /\ pc = "bl_shift"
    /\ fpga_reg_write(REG_SHIFT_AMT, 0)
    /\ rows_done' = 0
    /\ pc' = "bl_loop"
    /\ UNCHANGED <<call, args, local, i, tile_m, timeout_us, wret, results, ret,
                   cycles_out, stderr>>

\* while (rows_done < M): compute tile_m and the tile's weight base, write WEIGHT_BASE
fpga_bitlinear_tile_base ==
    /\ call = "fpga_bitlinear"
    /\ pc = "bl_loop"
    /\ rows_done < args.M
    /\ tile_m' = TileM(args.M, rows_done)
    /\ fpga_reg_write(REG_WEIGHT_BASE, TileWeightBase(args.weight_base, rows_done, args.stride))
    /\ pc' = "bl_dim_m"
    /\ UNCHANGED <<call, args, local, i, rows_done, timeout_us, wret, results, ret,
                   cycles_out, stderr>>

\* mutant of fpga_bitlinear_set_m: the tile size goes to DIM_K
fpga_bitlinear_set_m_to_dim_k ==
    /\ call = "fpga_bitlinear"
    /\ pc = "bl_dim_m"
    /\ fpga_reg_write(REG_DIM_K, tile_m)
    /\ pc' = "bl_start"
    /\ UNCHANGED <<call, args, local, i, rows_done, tile_m, timeout_us, wret, results, ret,
                   cycles_out, stderr>>

\* fpga_reg_write(REG_DIM_M, (uint32_t)tile_m)
fpga_bitlinear_set_m ==
    /\ call = "fpga_bitlinear"
    /\ pc = "bl_dim_m"
    /\ fpga_reg_write(REG_DIM_M, tile_m)
    /\ pc' = "bl_start"
    /\ UNCHANGED <<call, args, local, i, rows_done, tile_m, timeout_us, wret, results, ret,
                   cycles_out, stderr>>

\* mutant of fpga_bitlinear_start: the wait for DONE is left out
fpga_bitlinear_start_no_wait ==
    /\ call = "fpga_bitlinear"
    /\ pc = "bl_start"
    /\ fpga_reg_write(REG_CTRL, 1)
    /\ timeout_us' = WaitBudgetUs
    /\ wret' = <<0>>
    /\ pc' = "waited"
    /\ UNCHANGED <<call, args, local, i, rows_done, tile_m, results, ret, cycles_out, stderr>>

\* fpga_reg_write(REG_CTRL, 0x1), then the call of fpga_wait_done
fpga_bitlinear_start ==
    /\ call = "fpga_bitlinear"
    /\ pc = "bl_start"
    /\ fpga_reg_write(REG_CTRL, 1)
    /\ timeout_us' = WaitBudgetUs
    /\ wret' = << >>
    /\ pc' = "wait"
    /\ UNCHANGED <<call, args, local, i, rows_done, tile_m, results, ret, cycles_out, stderr>>

\* mutant of ZeroFill: memset(results, 0, ...) clears from the start of the buffer
ZeroFill_from_start(buf, from, n) ==
    Append(buf, [from |-> 0, n |-> n, zero |-> TRUE, off |-> 0, regs |-> << >>,
                 cast |-> "int32"])

\* memset(&results[rows_done], 0, tile_m * sizeof(int32_t))
ZeroFill(buf, from, n) ==
    Append(buf, [from |-> from, n |-> n, zero |-> TRUE, off |-> 0, regs |-> << >>,
                 cast |-> "int32"])

\* fpga_wait_done(...) < 0: report, zero-fill the tile, rows_done += tile_m, continue
fpga_bitlinear_timeout ==
    /\ call = "fpga_bitlinear"
    /\ pc = "waited"
    /\ wret = <<-1>>
    /\ stderr' = Append(stderr, <<"fpga_bitlinear: timeout at M-tile offset", rows_done>>)
    /\ results' = ZeroFill(results, rows_done, tile_m)
    /\ rows_done' = rows_done + tile_m
    /\ pc' = "bl_loop"
    /\ UNCHANGED <<call, args, local, i, tile_m, timeout_us, wret, ret, cycles_out,
                   reg, act, res, hw, ddr3, log>>

\* mutant of ReadTile: the register index is the row, not the row within the tile
ReadTile_absolute(buf, from, n) ==
    Append(buf, [from |-> from, n |-> n, zero |-> FALSE, off |-> REG_RES_BASE + from * 4,
                 regs |-> res, cast |-> "int32"])

\* mutant of ReadTile: the register value is narrowed to int8_t
ReadTile_int8(buf, from, n) ==
    Append(buf, [from |-> from, n |-> n, zero |-> FALSE, off |-> REG_RES_BASE, regs |-> res,
                 cast |-> "int8"])

\* for (i = 0; i < tile_m; i++) results[rows_done + i] = (int32_t)fpga_reg_read(REG_RES_BASE + i * 4)
ReadTile(buf, from, n) ==
    Append(buf, [from |-> from, n |-> n, zero |-> FALSE, off |-> REG_RES_BASE, regs |-> res,
                 cast |-> "int32"])

\* the word a buffer never written holds
Uninit == 16 ^ 7

\* the value entry j of an output buffer holds after the stores in buf
BufAt(b, buf, j) ==
    LET over == {n \in 1 .. Len(buf) : buf[n].from <= j /\ j < buf[n].from + buf[n].n}
        s == buf[Max(over)]
    IN  IF over = {} THEN Uninit
        ELSE IF s.zero THEN 0
        ELSE LET w == ResWord(b, s.regs, ((s.off + (j - s.from) * 4) - b.res_base) \div 4)
             IN  IF s.cast = "int8" THEN I8(w) ELSE w

\* mutant of fpga_bitlinear_read: the registers are read at the result base
\* of bitnet_test_common.h
fpga_bitlinear_read_tc_base ==
    /\ call = "fpga_bitlinear"
    /\ pc = "waited"
    /\ wret = <<0>>
    /\ results' = ReadTile(results, rows_done, tile_m)
    /\ log' = Append(log, <<"rres", TC_REG_RES_BASE, tile_m>>)
    /\ i' = tile_m
    /\ rows_done' = rows_done + tile_m
    /\ pc' = "bl_loop"
    /\ UNCHANGED <<call, args, local, tile_m, timeout_us, wret, ret, cycles_out,
                   reg, act, res, hw, ddr3, stderr>>

\* the wait succeeded: read the tile's results, rows_done += tile_m
fpga_bitlinear_read ==
    /\ call = "fpga_bitlinear"
    /\ pc = "waited"
    /\ wret = <<0>>
    /\ results' = ReadTile(results, rows_done, tile_m)
    /\ log' = Append(log, <<"rres", REG_RES_BASE, tile_m>>)
    /\ i' = tile_m
    /\ rows_done' = rows_done + tile_m
    /\ pc' = "bl_loop"
    /\ UNCHANGED <<call, args, local, tile_m, timeout_us, wret, ret, cycles_out,
                   reg, act, res, hw, ddr3, stderr>>

\* the loop condition fails: the function returns (void)
fpga_bitlinear_return ==
    /\ call = "fpga_bitlinear"
    /\ pc = "bl_loop"
    /\ rows_done >= args.M
    /\ pc' = "done"
    /\ UNCHANGED <<call, args, local, i, rows_done, tile_m, timeout_us, wret, results, ret,
                   cycles_out, reg, act, res, hw, ddr3, log, stderr>>

-----------------------------------------------------------------------------
(* bitnet_test_common.h: weight packing, write_activations, read_results.  *)

\* mutants of Enc: other values get the code 11; -1 gets the code of +1
Enc_reserved(w) == CASE w = 1 -> 1 [] w = -1 -> 2 [] w = 0 -> 0 [] OTHER -> 3
Enc_sign_dropped(w) == CASE w = 1 -> 1 [] w = -1 -> 1 [] OTHER -> 0

\* the 2-bit code of a ternary weight: 00 = 0, 01 = +1, 10 = -1
Enc(w) == CASE w = 1 -> 1 [] w = -1 -> 2 [] OTHER -> 0

\* the codes of the n lanes from lane first on, each shifted by 2 bits per lane
RECURSIVE PackLanes(_, _, _)
PackLanes(weights, first, n) ==
    IF n = 0 THEN 0
    ELSE PackLanes(weights, first, n - 1) + Enc(weights[first + n - 1]) * (4 ^ (n - 1))

\* out[i / 16] |= enc << ((i % 16) * 2) for i = 0 .. 63
pack_weights(weights) ==
    [q \in 0 .. 3 |-> MkWord(PackLanes(weights, 16 * q + 8, 8), PackLanes(weights, 16 * q, 8))]

\* the same for i = 0 .. 127 (test_fpga_driver.c)
pack_weights_128(weights) ==
    [q \in 0 .. 7 |-> MkWord(PackLanes(weights, 16 * q + 8, 8), PackLanes(weights, 16 * q, 8))]

PackWords(b, weights) ==
    IF b.pes = NUM_PES THEN pack_weights(weights) ELSE pack_weights_128(weights)

\* the functions that write tiles of weights to DDR3
TileWriters == {"write_weight_matrix", "write_test_weights", "run_test"}

\* the weight at (row, col): wmat[row * K + col], or fill_weight in write_test_weights
WeightAt(row, col) ==
    IF call = "write_test_weights" THEN args.fill_weight ELSE args.wmat[row * args.K + col]

\* mutant of TileChunk: the columns from K on are not padded with zeros
TileChunk_unpadded(b, row, tile) ==
    [n \in 0 .. b.pes - 1 |-> IF tile * b.pes + n < args.K THEN WeightAt(row, tile * b.pes + n)
                              ELSE 1]

\* chunk[i] = (col < K) ? weight : 0 for the columns of one tile
TileChunk(b, row, tile) ==
    [n \in 0 .. b.pes - 1 |-> IF tile * b.pes + n < args.K THEN WeightAt(row, tile * b.pes + n)
                              ELSE 0]

\* mutant of WordOffset: the row is not scaled by the tiles of a row
WordOffset_no_stride(b, row, tile, tiles_per_row) == (row + tile) * (b.tile_bytes \div 4)

\* word_offset = (row * tiles_per_row + tile) * 4, in uint32 units (* 8 in write_test_weights)
WordOffset(b, row, tile, tiles_per_row) == (row * tiles_per_row + tile) * (b.tile_bytes \div 4)

\* the locals of the row and tile loops, and the tiles written so far
TileLoopStart == [row |-> 0, tile |-> 0, tiles |-> << >>]

\* one iteration of the tile loop: build the chunk, pack it, write its words to DDR3
write_weight_matrix_tile ==
    /\ call \in TileWriters
    /\ pc = "write_weight_matrix"
    /\ local.row < args.M
    /\ LET b == Build(call)
           tiles_per_row == TilesPerRow(args.K, b.pes)
           packed == PackWords(b, TileChunk(b, local.row, local.tile))
           word_offset == WordOffset(b, local.row, local.tile, tiles_per_row)
           words == word_offset .. word_offset + (b.tile_bytes \div 4) - 1
       IN  /\ ddr3' = [w \in (DOMAIN ddr3) \cup words |->
                          IF w \in words THEN packed[w - word_offset] ELSE ddr3[w]]
           /\ local' = [local EXCEPT
                          !.row = IF local.tile + 1 < tiles_per_row THEN local.row
                                  ELSE local.row + 1,
                          !.tile = IF local.tile + 1 < tiles_per_row THEN local.tile + 1 ELSE 0,
                          !.tiles = Append(local.tiles, <<local.row, local.tile, word_offset>>)]
    /\ UNCHANGED <<call, args, pc, i, rows_done, tile_m, timeout_us, wret, results, ret,
                   cycles_out, reg, act, res, hw, log, stderr>>

\* the row loop ends: the function returns
write_weight_matrix_return ==
    /\ call \in TileWriters
    /\ pc = "write_weight_matrix"
    /\ local.row >= args.M
    /\ pc' = IF call = "run_test" THEN "weight_base" ELSE "done"
    /\ UNCHANGED <<call, args, local, i, rows_done, tile_m, timeout_us, wret, results, ret,
                   cycles_out, reg, act, res, hw, ddr3, log, stderr>>

\* for (i = 0; i < M; i++) results[i] = (int8_t)(reg_read(g_bitnet, REG_RES_BASE + i * 4) & 0xFF)
read_results(buf, M) ==
    Append(buf, [from |-> 0, n |-> M, zero |-> FALSE, off |-> TC_REG_RES_BASE, regs |-> res,
                 cast |-> "int8"])

TestCalls == {"run_test", "fpga_layer", "fpga_inference"}

\* the calls that run fpga_layer: the call itself, and fpga_inference for each stage
LayerCalls == {"fpga_layer", "fpga_inference"}

\* write_activations: reg_write(g_bitnet, REG_ACT_BASE + i * 4, (uint32_t)(uint8_t)acts[i])
write_activations ==
    /\ call \in TestCalls
    /\ pc = "write_activations"
    /\ i < args.K
    /\ reg_write(REG_ACT_BASE + i * 4, U8(args.activations[i]))
    /\ i' = i + 1
    /\ UNCHANGED <<call, args, local, pc, rows_done, tile_m, timeout_us, wret, results, ret,
                   cycles_out, stderr>>

\* write_activations returns to its caller
write_activations_return ==
    /\ call \in TestCalls
    /\ pc = "write_activations"
    /\ i >= args.K
    /\ pc' = IF call = "run_test" THEN "start" ELSE "weight_base"
    /\ UNCHANGED <<call, args, local, i, rows_done, tile_m, timeout_us, wret, results, ret,
                   cycles_out, reg, act, res, hw, ddr3, log, stderr>>

\* one of the four configuration writes of run_test and fpga_layer
ConfigWrite(at, off, val, next) ==
    /\ pc = at
    /\ reg_write(off, val)
    /\ pc' = next
    /\ UNCHANGED <<call, args, local, i, rows_done, tile_m, timeout_us, wret, results, ret,
                   cycles_out, stderr>>

-----------------------------------------------------------------------------
(* run_test(wmat, acts, M, K, shift, results).                             *)

\* mutant of run_test_config: SHIFT_AMT is not written
run_test_config_no_shift ==
    /\ call = "run_test"
    /\ \/ ConfigWrite("weight_base", REG_WEIGHT_BASE, DDR3_BASE, "dim_m")
       \/ ConfigWrite("dim_m", REG_DIM_M, args.M, "dim_k")
       \/ ConfigWrite("dim_k", REG_DIM_K, args.K, "write_activations")

\* WEIGHT_BASE = DDR3_BASE, DIM_M = M, DIM_K = K, SHIFT_AMT = shift, then write_activations
run_test_config ==
    /\ call = "run_test"
    /\ \/ ConfigWrite("weight_base", REG_WEIGHT_BASE, DDR3_BASE, "dim_m")
       \/ ConfigWrite("dim_m", REG_DIM_M, args.M, "dim_k")
       \/ ConfigWrite("dim_k", REG_DIM_K, args.K, "shift_amt")
       \/ ConfigWrite("shift_amt", REG_SHIFT_AMT, args.shift, "write_activations")

\* reg_write(g_bitnet, REG_CTRL, 0x1), then the call of wait_done
run_test_start ==
    /\ call = "run_test"
    /\ pc = "start"
    /\ reg_write(REG_CTRL, 1)
    /\ timeout_us' = WaitBudgetUs
    /\ wret' = << >>
    /\ pc' = "wait"
    /\ UNCHANGED <<call, args, local, i, rows_done, tile_m, results, ret, cycles_out, stderr>>

\* if (wait_done(g_bitnet, 500000) < 0) return -1
run_test_timeout ==
    /\ call = "run_test"
    /\ pc = "waited"
    /\ wret = <<-1>>
    /\ ret' = <<-1>>
    /\ pc' = "done"
    /\ UNCHANGED <<call, args, local, i, rows_done, tile_m, timeout_us, wret, results,
                   cycles_out, reg, act, res, hw, ddr3, log, stderr>>

\* mutant of run_test_read: the result of wait_done is not tested
run_test_read_unchecked ==
    /\ call = "run_test"
    /\ pc = "waited"
    /\ results' = read_results(results, args.M)
    /\ log' = Append(log, <<"rres", TC_REG_RES_BASE, args.M>>)
    /\ i' = args.M
    /\ ret' = <<0>>
    /\ pc' = "done"
    /\ UNCHANGED <<call, args, local, rows_done, tile_m, timeout_us, wret, cycles_out,
                   reg, act, res, hw, ddr3, stderr>>

\* read_results(results, M); return 0
run_test_read ==
    /\ call = "run_test"
    /\ pc = "waited"
    /\ wret = <<0>>
    /\ results' = read_results(results, args.M)
    /\ log' = Append(log, <<"rres", TC_REG_RES_BASE, args.M>>)
    /\ i' = args.M
    /\ ret' = <<0>>
    /\ pc' = "done"
    /\ UNCHANGED <<call, args, local, rows_done, tile_m, timeout_us, wret, cycles_out,
                   reg, act, res, hw, ddr3, stderr>>

-----------------------------------------------------------------------------
(* fpga_layer(activations, results, M, K, shift, ddr3_byte_offset,         *)
(* cycles_out).                                                            *)

\* WEIGHT_BASE = DDR3_BASE + ddr3_byte_offset, DIM_M = M, DIM_K = K, SHIFT_AMT = shift
fpga_layer_config ==
    /\ call \in LayerCalls
    /\ \/ ConfigWrite("weight_base", REG_WEIGHT_BASE,
                      AddU32(DDR3_BASE, args.ddr3_byte_offset), "dim_m")
       \/ ConfigWrite("dim_m", REG_DIM_M, args.M, "dim_k")
       \/ ConfigWrite("dim_k", REG_DIM_K, args.K, "shift_amt")
       \/ ConfigWrite("shift_amt", REG_SHIFT_AMT, args.shift, "start")

\* reg_write(g_bitnet, REG_CTRL, 0x1), then the call of wait_done
fpga_layer_start ==
    /\ call \in LayerCalls
    /\ pc = "start"
    /\ reg_write(REG_CTRL, 1)
    /\ timeout_us' = WaitBudgetUs
    /\ wret' = << >>
    /\ pc' = "wait"
    /\ UNCHANGED <<call, args, local, i, rows_done, tile_m, results, ret, cycles_out, stderr>>

\* wait_done(...) < 0: fprintf(stderr, "FPGA timeout! ..."), return -1
fpga_layer_timeout ==
    /\ call \in LayerCalls
    /\ pc = "waited"
    /\ wret = <<-1>>
    /\ stderr' = Append(stderr, <<"FPGA timeout!", args.M, args.K>>)
    /\ ret' = <<-1>>
    /\ pc' = "done"
    /\ UNCHANGED <<call, args, local, i, rows_done, tile_m, timeout_us, wret, results,
                   cycles_out, reg, act, res, hw, ddr3, log>>

\* if (cycles_out) *cycles_out = PERF_CYCLES; read_results(results, M); return 0
fpga_layer_read ==
    /\ call \in LayerCalls
    /\ pc = "waited"
    /\ wret = <<0>>
    /\ IF args.cycles_out
       THEN /\ cycles_out' = reg_read(REG_PERF_CYCLES)
            /\ log' = log \o << <<"r", REG_PERF_CYCLES, reg_read(REG_PERF_CYCLES)>>,
                                <<"rres", TC_REG_RES_BASE, args.M>> >>
       ELSE /\ cycles_out' = cycles_out
            /\ log' = Append(log, <<"rres", TC_REG_RES_BASE, args.M>>)
    /\ results' = read_results(results, args.M)
    /\ i' = args.M
    /\ ret' = <<0>>
    /\ pc' = "done"
    /\ UNCHANGED <<call, args, local, rows_done, tile_m, timeout_us, wret,
                   reg, act, res, hw, ddr3, stderr>>

-----------------------------------------------------------------------------
(* The calls the model explores.                                           *)

\* the activation vector of a call of input dimension K
ActPattern == <<-128, 3, 127, -1>>
ActVector(K) == [n \in 0 .. K - 1 |-> ActPattern[(n % 4) + 1]]

\* output dimensions around the multiples of the accelerator's limit
TiledMs ==
    {m \in {t * FPGA_MAX_DIM_M + e : t \in 0 .. MaxTiles, e \in {-1, 0, 1}} : m >= 1}

\* stride: bytes per weight row in DDR3 (tiles_per_row * BYTES_PER_BEAT)
RowStride(K) == TilesPerRow(K, FPGA_NUM_PES) * FPGA_BYTES_PER_BEAT

BitlinearArgs ==
    UNION {[activations : {ActVector(K)}, K : {K}, weight_base : {DDR3_BASE},
            M : TiledMs, stride : {RowStride(K)}] : K \in 1 .. MaxK}

\* the weight matrix of a run_test call: wmat[row * K + col] cycles through +1, -1, 0
WeightPattern == <<1, -1, 0>>
WeightMatrix(M, K) == [n \in 0 .. M * K - 1 |-> WeightPattern[(n % 3) + 1]]

RunTestArgs ==
    UNION {[wmat : {WeightMatrix(M, K)}, activations : {ActVector(K)}, M : {M}, K : {K},
            shift : 0 .. MaxShift] : <<M, K>> \in (1 .. MaxRunM) \X (1 .. MaxK)}

\* byte offsets of the layers in the weight region
LayerOffsets == {0, 16 * MaxRunM}

FpgaLayerArgs ==
    UNION {[activations : {ActVector(K)}, M : 1 .. MaxRunM, K : {K}, shift : 0 .. MaxShift,
            ddr3_byte_offset : LayerOffsets, cycles_out : BOOLEAN] : K \in 1 .. MaxK}

CallInit ==
    \/ call = "fpga_bitlinear" /\ args \in BitlinearArgs /\ pc = "bl_act"
    \/ call = "run_test" /\ args \in RunTestArgs /\ pc = "write_weight_matrix"
    \/ call = "fpga_layer" /\ args \in FpgaLayerArgs /\ pc = "write_activations"

Init ==
    /\ CallInit
    /\ i = 0 /\ rows_done = 0 /\ tile_m = 0 /\ timeout_us = 0
    /\ wret = << >>
    /\ ret = << >>
    /\ local = IF call = "run_test" THEN TileLoopStart ELSE << >>
    /\ results = << >>
    /\ cycles_out = 0
    /\ reg = ResetRegs /\ act = ResetAct /\ res = ResetRes
    /\ hw = IdleHw
    /\ ddr3 = << >>
    /\ log = << >>
    /\ stderr = << >>

Next ==
    \/ fpga_bitlinear_write_act
    \/ fpga_bitlinear_set_k
    \/ fpga_bitlinear_set_shift
    \/ fpga_bitlinear_tile_base
    \/ fpga_bitlinear_set_m
    \/ fpga_bitlinear_start
    \/ fpga_wait_done_poll
    \/ fpga_wait_done_expire
    \/ fpga_bitlinear_timeout
    \/ fpga_bitlinear_read
    \/ fpga_bitlinear_return
    \/ write_weight_matrix_tile
    \/ write_weight_matrix_return
    \/ run_test_config
    \/ write_activations
    \/ write_activations_return
    \/ run_test_start
    \/ run_test_timeout
    \/ run_test_read
    \/ fpga_layer_config
    \/ fpga_layer_start
    \/ fpga_layer_timeout
    \/ fpga_layer_read
    \/ HwFinish

Spec == Init /\ [][Next]_vars

-----------------------------------------------------------------------------
(* Reading the log.                                                        *)

IsWrite(e, off) == e[1] = "w" /\ e[2] = off
IsStatusRead(e) == e[1] = "r" /\ e[2] = REG_STATUS
IsStart(e) == IsWrite(e, REG_CTRL) /\ Bit(e[3], 0) = 1

StatusReads == SelectSeq(log, IsStatusRead)

\* the writes to one register, in order
WritesTo(off) == LET To(e) == IsWrite(e, off) IN SelectSeq(log, To)

\* positions of the start pulses, and the last one before position n (0 if none)
StartPositions == {n \in 1 .. Len(log) : IsStart(log[n])}
LastStartBefore(n) == Max({0} \cup {m \in StartPositions : m < n})

\* the STATUS reads at positions from .. to
StatusReadsBetween(from, to) ==
    LET In(e) == IsStatusRead(e) IN SelectSeq(SubSeq(log, from, to), In)

\* sum of the values of the first n writes of a sequence of writes
RECURSIVE SumWritten(_, _)
SumWritten(ws, n) == IF n = 0 THEN 0 ELSE SumWritten(ws, n - 1) + ws[n][3]

\* number of the last store of a buffer that covers entry j (0 if none)
BufStore(buf, j) ==
    Max({0} \cup {n \in 1 .. Len(buf) : buf[n].from <= j /\ j < buf[n].from + buf[n].n})

\* ceil(M / FPGA_MAX_DIM_M)
NumChunks(M) == (M + FPGA_MAX_DIM_M - 1) \div FPGA_MAX_DIM_M

\* the activation registers after the activation loop of a call
WrittenActs == [n \in DOMAIN act |-> IF n < args.K THEN U8(args.activations[n]) ELSE 0]

\* ceil(t / 10) STATUS reads fit in a budget of t us, none when t <= 0
CeilDiv10(t) == IF t <= 0 THEN 0 ELSE (t + 9) \div 10

-----------------------------------------------------------------------------
(* C1: in fpga_bitlinear, run_test and fpga_layer, a start pulse is issued *)
(* only after WEIGHT_BASE, DIM_M, DIM_K, SHIFT_AMT and each of the K        *)
(* activation registers have been written, the last write of each carrying *)
(* the value of the invocation being started.                              *)

\* the last value written to a register before position p of the log, << >> if none
LastWritten(off, p) ==
    LET before == {n \in 1 .. p - 1 : IsWrite(log[n], off)}
    IN  IF before = {} THEN << >> ELSE <<log[Max(before)][3]>>

\* the invocation that the c-th start pulse of the call starts
Invocation(c) ==
    IF call = "fpga_bitlinear"
    THEN [base |-> args.weight_base + (c - 1) * FPGA_MAX_DIM_M * args.stride,
          m |-> Min(FPGA_MAX_DIM_M, args.M - (c - 1) * FPGA_MAX_DIM_M),
          k |-> args.K, shift |-> 0]
    ELSE IF call = "run_test"
    THEN [base |-> DDR3_BASE, m |-> args.M, k |-> args.K, shift |-> args.shift]
    ELSE [base |-> DDR3_BASE + args.ddr3_byte_offset, m |-> args.M, k |-> args.K,
          shift |-> args.shift]

DriverCalls == {"fpga_bitlinear", "run_test", "fpga_layer"}

C1_StartAfterConfig ==
    call \in DriverCalls =>
        \A p \in StartPositions :
            LET inv == Invocation(Cardinality({q \in StartPositions : q <= p}))
            IN  /\ LastWritten(REG_WEIGHT_BASE, p) = <<inv.base>>
                /\ LastWritten(REG_DIM_M, p) = <<inv.m>>
                /\ LastWritten(REG_DIM_K, p) = <<inv.k>>
                /\ LastWritten(REG_SHIFT_AMT, p) = <<inv.shift>>
                /\ \A n \in 0 .. args.K - 1 :
                       LastWritten(REG_ACT_BASE + 4 * n, p) = <<U8(args.activations[n])>>

\* fpga_layer, which writes the activations first, has started a job with
\* K = 2, a shift and a layer offset, and the accelerator latched that job
C1_Witness ==
    /\ call = "fpga_layer"
    /\ args.K = 2 /\ args.shift = 1 /\ args.ddr3_byte_offset > 0
    /\ Cardinality(StartPositions) = 1
    /\ hw.busy /\ hw.job = Invocation(1)
    /\ act = WrittenActs

-----------------------------------------------------------------------------
(* C2: in fpga_bitlinear, run_test and fpga_layer, result registers are    *)
(* read only if a STATUS read since the most recent start pulse returned   *)
(* with bit 1 set; an invocation whose wait timed out has none of its      *)
(* result registers read.                                                  *)

IsResultRead(e) == e[1] = "rres"

\* the log from the start pulse at p up to the next start pulse or the end
InvocationEnd(p) == Min(Len(log), Max({p} \cup {q - 1 : q \in {r \in StartPositions : r > p}}))

C2_ResultReadAfterDone ==
    call \in DriverCalls =>
        /\ \A n \in 1 .. Len(log) :
               IsResultRead(log[n]) =>
                   /\ LastStartBefore(n) > 0
                   /\ \E q \in LastStartBefore(n) + 1 .. n - 1 :
                          IsStatusRead(log[q]) /\ Bit(log[q][3], 1) = 1
        /\ \A p \in StartPositions :
               (\A q \in p + 1 .. InvocationEnd(p) :
                    IsStatusRead(log[q]) => Bit(log[q][3], 1) = 0) =>
                   \A q \in p + 1 .. InvocationEnd(p) : ~IsResultRead(log[q])
        /\ (pc = "done" /\ ret = <<-1>>) => results = << >>
        /\ \A n \in 1 .. Len(results) : results[n].zero <=> (\E m \in 1 .. Len(stderr) :
                                                               stderr[m][2] = results[n].from)

\* fpga_bitlinear has read the results of its second chunk after its first
\* chunk timed out with no result read
C2_Witness ==
    /\ call = "fpga_bitlinear"
    /\ Len(stderr) = 1 /\ stderr[1][2] = 0
    /\ Len(results) = 2 /\ results[1].zero /\ ~results[2].zero
    /\ Cardinality({n \in 1 .. Len(log) : IsResultRead(log[n])}) = 1

-----------------------------------------------------------------------------
(* C3 as claimed: in fpga_bitlinear, after the start pulse of a tile,      *)
(* WEIGHT_BASE and DIM_M are not rewritten and no further start pulse is   *)
(* issued until a STATUS read has returned with the done bit set, on every *)
(* path through the tiling loop.                                           *)

Reconfigures(e) == IsWrite(e, REG_WEIGHT_BASE) \/ IsWrite(e, REG_DIM_M) \/ IsStart(e)

C3_DoneSeenBeforeNextTile ==
    call = "fpga_bitlinear" =>
        \A n \in 1 .. Len(log) :
            Reconfigures(log[n]) /\ LastStartBefore(n) > 0 =>
                \E p \in LastStartBefore(n) + 1 .. n - 1 :
                    IsStatusRead(log[p]) /\ Bit(log[p][3], 1) = 1

\* C3 as amended: after the start pulse of a tile, WEIGHT_BASE and DIM_M
\* are not rewritten and no further start pulse is issued until
\* fpga_wait_done has returned for the tile: either its last STATUS read
\* had the done bit set, or the whole budget of STATUS reads was spent with
\* the done bit clear in each (the timeout path, which goes on to the next tile).
C3_WaitReturnedBeforeNextTile ==
    call = "fpga_bitlinear" =>
        \A n \in 1 .. Len(log) :
            Reconfigures(log[n]) /\ LastStartBefore(n) > 0 =>
                LET rd == StatusReadsBetween(LastStartBefore(n) + 1, n - 1)
                IN  \/ /\ Len(rd) >= 1
                       /\ Bit(rd[Len(rd)][3], 1) = 1
                    \/ /\ Len(rd) = CeilDiv10(WaitBudgetUs)
                       /\ \A q \in 1 .. Len(rd) : Bit(rd[q][3], 1) = 0

\* the second tile is being configured after the first one timed out
C3_Witness ==
    /\ call = "fpga_bitlinear"
    /\ pc = "bl_start"
    /\ Len(stderr) = 1
    /\ Cardinality(StartPositions) = 1
    /\ Len(WritesTo(REG_DIM_M)) = 2

-----------------------------------------------------------------------------
(* C4: for M > FPGA_MAX_DIM_M, when no chunk times out, the results that   *)
(* fpga_bitlinear assembles over its invocations equal, row by row, those  *)
(* of one accelerator invocation with DIM_M = M at the same weight base    *)
(* and row stride over the same activations.                               *)

WholeJob == [base |-> args.weight_base, m |-> args.M, k |-> args.K, shift |-> 0]

C4_TilingTransparent ==
    (call = "fpga_bitlinear" /\ pc = "done" /\ stderr = << >> /\ args.M > FPGA_MAX_DIM_M) =>
        \A j \in 0 .. args.M - 1 :
            BufAt(Build(call), results, j) = HwRowResult(Build(call), WholeJob, WrittenActs, j)

\* three invocations without a timeout, and rows of different tiles that differ
C4_Witness ==
    /\ call = "fpga_bitlinear" /\ pc = "done" /\ stderr = << >>
    /\ args.M = 2 * FPGA_MAX_DIM_M + 1
    /\ Len(results) = 3
    /\ BufAt(Build(call), results, FPGA_MAX_DIM_M) # 0
    /\ BufAt(Build(call), results, FPGA_MAX_DIM_M) # BufAt(Build(call), results, 0)

-----------------------------------------------------------------------------
(* C5: the chunks of fpga_bitlinear are consecutive row ranges starting at *)
(* row 0, each of 1 .. FPGA_MAX_DIM_M rows, that sum to M; DIM_M is        *)
(* written with the chunk's size; only the last chunk may be smaller, and  *)
(* it has M mod FPGA_MAX_DIM_M rows when M is not a multiple.              *)

C5_ChunkPartition ==
    call = "fpga_bitlinear" =>
        LET d == WritesTo(REG_DIM_M)
        IN  /\ \A c \in 1 .. Len(d) : d[c][3] >= 1 /\ d[c][3] <= FPGA_MAX_DIM_M
            /\ \A c \in 1 .. Len(d) - 1 : d[c][3] = FPGA_MAX_DIM_M
            /\ SumWritten(d, Len(d)) <= args.M
            /\ Len(results) <= Len(d)
            /\ \A c \in 1 .. Len(results) :
                   /\ results[c].from = SumWritten(d, c - 1)
                   /\ results[c].n = d[c][3]
            /\ pc = "done" =>
                   /\ SumWritten(d, Len(d)) = args.M
                   /\ Len(results) = Len(d)
                   /\ args.M % FPGA_MAX_DIM_M # 0 =>
                          d[Len(d)][3] = args.M % FPGA_MAX_DIM_M

\* M = 2049: two full chunks and a last chunk of one row
C5_Witness ==
    /\ call = "fpga_bitlinear" /\ pc = "done"
    /\ args.M = 2 * FPGA_MAX_DIM_M + 1
    /\ Len(WritesTo(REG_DIM_M)) = 3
    /\ WritesTo(REG_DIM_M)[3][3] = 1
    /\ results[3].from = 2 * FPGA_MAX_DIM_M

-----------------------------------------------------------------------------
(* C6: for the chunk at row offset r, the sum of the sizes of the earlier  *)
(* chunks, WEIGHT_BASE is written with weight_base + r * stride; so the    *)
(* weights of any row are read at weight_base + row * stride (stated for   *)
(* the first and last row of every chunk configured, and for every row of  *)
(* a call whose chunks all completed).                                     *)

C6_TileWeightBase ==
    call = "fpga_bitlinear" =>
        LET d == WritesTo(REG_DIM_M)
            wb == WritesTo(REG_WEIGHT_BASE)
        IN  /\ \A c \in 1 .. Len(wb) :
                   wb[c][3] = args.weight_base + SumWritten(d, c - 1) * args.stride
            /\ \A c \in 1 .. Len(wb) : \A r \in {0, TileM(args.M, SumWritten(d, c - 1)) - 1} :
                   HwRowAddr(Build(call), wb[c][3], r, args.K)
                       = args.weight_base + (SumWritten(d, c - 1) + r) * args.stride
            /\ (pc = "done" /\ stderr = << >>) =>
                   \A j \in 0 .. args.M - 1 :
                       LET c == BufStore(results, j)
                       IN  HwRowAddr(Build(call), wb[c][3], j - results[c].from, args.K)
                               = args.weight_base + j * args.stride

\* the third chunk's weights start 2048 rows into the matrix
C6_Witness ==
    /\ call = "fpga_bitlinear"
    /\ Len(WritesTo(REG_WEIGHT_BASE)) = 3
    /\ WritesTo(REG_WEIGHT_BASE)[3][3] = args.weight_base + 2 * FPGA_MAX_DIM_M * args.stride
    /\ args.stride > 0

-----------------------------------------------------------------------------
(* C7: in one call of fpga_bitlinear each of the K activation registers,   *)
(* DIM_K and SHIFT_AMT is written exactly once, before the first start     *)
(* pulse; after it only WEIGHT_BASE, DIM_M and CTRL are written, and the   *)
(* activation registers keep their values across all chunks.               *)

OnceRegs == {REG_DIM_K, REG_SHIFT_AMT} \cup {REG_ACT_BASE + 4 * n : n \in 0 .. args.K - 1}
TileRegs == {REG_WEIGHT_BASE, REG_DIM_M, REG_CTRL}

C7_ActivationsWrittenOnce ==
    call = "fpga_bitlinear" =>
        /\ \A n \in 1 .. Len(log) : log[n][1] = "w" => log[n][2] \in OnceRegs \cup TileRegs
        /\ \A o \in OnceRegs : Len(WritesTo(o)) <= 1
        /\ StartPositions # {} =>
               LET first == CHOOSE m \in StartPositions : \A q \in StartPositions : m <= q
               IN  /\ \A o \in OnceRegs : \E n \in 1 .. first - 1 : IsWrite(log[n], o)
                   /\ \A n \in first .. Len(log) : log[n][1] = "w" => log[n][2] \in TileRegs
                   /\ act = WrittenActs

\* three chunks have been started and K = 2 activations were written
C7_Witness ==
    /\ call = "fpga_bitlinear" /\ pc = "done"
    /\ args.K = 2
    /\ Cardinality(StartPositions) = 3
    /\ Len(WritesTo(REG_ACT_BASE + 4)) = 1

-----------------------------------------------------------------------------
(* C8: when fpga_wait_done times out for a chunk, exactly the entries      *)
(* results[r .. r+chunk) are set to 0 and no other entry is written; the   *)
(* call is not aborted, and every chunk is configured, started and waited  *)
(* for whatever timed out before it.                                       *)

\* a step of the call that follows a wait that returned -1 (the accelerator
\* may also step in that state; the call's own step changes pc)
C8_TimeoutStep ==
    (call = "fpga_bitlinear" /\ pc = "waited" /\ wret = <<-1>> /\ pc' # pc) =>
        LET size == Min(FPGA_MAX_DIM_M, args.M - rows_done)
            last == rows_done + size - 1
        IN  \* the stores made before stay, and one store is added: zeros over
            \* exactly the rows rows_done .. last
            /\ Len(results') = Len(results) + 1
            /\ SubSeq(results', 1, Len(results)) = results
            /\ results'[Len(results')].zero
            /\ results'[Len(results')].from = rows_done
            /\ results'[Len(results')].n = size
            \* so the chunk's rows read 0 and the rows around it are as before
            /\ BufAt(Build(call), results', rows_done) = 0
            /\ BufAt(Build(call), results', last) = 0
            /\ \A j \in {0, rows_done - 1, last + 1, args.M - 1} :
                   (0 <= j /\ j < args.M /\ (j < rows_done \/ j > last)) =>
                       /\ BufStore(results', j) = BufStore(results, j)
                       /\ BufAt(Build(call), results', j) = BufAt(Build(call), results, j)
            /\ pc' = "bl_loop"
            /\ rows_done' = rows_done + size
            /\ ret' = << >>

C8_AllChunksRun ==
    (call = "fpga_bitlinear" /\ pc = "done") =>
        /\ Len(WritesTo(REG_WEIGHT_BASE)) = NumChunks(args.M)
        /\ Len(WritesTo(REG_DIM_M)) = NumChunks(args.M)
        /\ Cardinality(StartPositions) = NumChunks(args.M)
        /\ \A p \in StartPositions : p < Len(log) /\ IsStatusRead(log[p + 1])
        /\ Len(results) = NumChunks(args.M)

C8_TimeoutZeroFillsChunk == [][C8_TimeoutStep]_vars /\ []C8_AllChunksRun

\* M = 2049, only the middle chunk timed out: its rows are 0, the first chunk
\* keeps the results read before and the last chunk was still read
C8_Witness ==
    /\ call = "fpga_bitlinear" /\ pc = "done"
    /\ args.M = 2 * FPGA_MAX_DIM_M + 1
    /\ Len(stderr) = 1 /\ stderr[1][2] = FPGA_MAX_DIM_M
    /\ results[1].zero = FALSE /\ results[2].zero = TRUE /\ results[3].zero = FALSE
    /\ BufAt(Build(call), results, FPGA_MAX_DIM_M) = 0
    /\ BufAt(Build(call), results, 2 * FPGA_MAX_DIM_M - 1) = 0
    /\ BufAt(Build(call), results, 0) # 0

-----------------------------------------------------------------------------
(* C9 as claimed: for every chunk of the tiling engine that times out, the *)
(* caller of the matrix-vector call receives a failure signal, a status    *)
(* value returned to it.                                                   *)

C9_TimeoutReturnedToCaller ==
    (call = "fpga_bitlinear" /\ pc = "done" /\ stderr # << >>) =>
        ret # << >> /\ ret[1] < 0

-----------------------------------------------------------------------------
(* C10: wait_done always terminates; it returns 0 at the first STATUS read *)
(* whose bit 1 is set, and otherwise -1 after at most ceil(timeout_us/10)  *)
(* reads; with timeout_us <= 0 it returns -1 without reading STATUS; bit 0 *)
(* of STATUS has no effect on the outcome.                                 *)

C10_Outcome ==
    LET n == Len(StatusReads)
        budget == CeilDiv10(args.timeout_us)
        NoDoneBefore(m) == \A j \in 1 .. m : Bit(StatusReads[j][3], 1) = 0
    IN  /\ n <= budget
        /\ pc = "wait" => wret = << >> /\ NoDoneBefore(n)
        /\ pc = "waited" =>
             \/ wret = <<0>> /\ n >= 1 /\ Bit(StatusReads[n][3], 1) = 1 /\ NoDoneBefore(n - 1)
             \/ wret = <<-1>> /\ n = budget /\ NoDoneBefore(n)
        /\ args.timeout_us <= 0 => n = 0 /\ (pc = "waited" => wret = <<-1>>)

\* C10 (the statement checked): the outcome above in every state, and the
\* call returns in every behaviour
C10_WaitDoneTerminates == []C10_Outcome /\ <>(pc = "waited")

\* a budget of 25 us is spent in 3 reads that all saw BUSY without DONE
C10_Witness ==
    /\ call \in WaitCalls
    /\ pc = "waited" /\ wret = <<-1>>
    /\ args.timeout_us = 25
    /\ Len(StatusReads) = 3
    /\ \A j \in 1 .. 3 : Bit(StatusReads[j][3], 0) = 1

-----------------------------------------------------------------------------
(* The reference model of bitnet_test_common.h: compute_expected calls     *)
(* compute_expected_row for every row of the matrix.                       *)

\* the variables of the driver and of the device, which the reference model leaves alone
DriverVars == <<rows_done, tile_m, timeout_us, wret, results, cycles_out, stderr>>
DeviceVars == <<reg, act, res, hw, ddr3, log>>

\* largest K and largest of the small shifts of a reference computation
RefMaxK == 2
RefMaxShift == 2

\* activation values that reach the clamp's limits in sums of two products
RefActs == {-128, -1, 127}
RefShifts == (0 .. RefMaxShift) \cup {9}

\* matrices of one row, and of two rows of which the second negates the first
RefMatrices(M, K) ==
    {[n \in 0 .. M * K - 1 |-> IF n < K THEN w[n] ELSE -w[n - K]] : w \in [0 .. K - 1 -> {-1, 0, 1}]}

RefArgs ==
    UNION {[wmat : RefMatrices(M, K), acts : [0 .. K - 1 -> RefActs], M : {M}, K : {K},
            shift : RefShifts] : <<M, K>> \in {1, 2} \X (1 .. RefMaxK)}

\* for (row = 0; row < M; row++): the call compute_expected_row(&wmat[row * K], ...), acc = 0
compute_expected_call ==
    /\ call = "compute_expected"
    /\ pc = "ce_loop"
    /\ local.row < args.M
    /\ local' = [local EXCEPT !.acc = 0]
    /\ i' = 0
    /\ pc' = "cer_loop"
    /\ UNCHANGED <<call, args, ret, DriverVars, DeviceVars>>

\* acc += (int32_t)weights[i] * (int32_t)acts[i]
compute_expected_row_mac ==
    /\ call = "compute_expected"
    /\ pc = "cer_loop"
    /\ i < args.K
    /\ local' = [local EXCEPT
                   !.acc = AddU32(local.acc, args.wmat[local.row * args.K + i] * args.acts[i])]
    /\ i' = i + 1
    /\ UNCHANGED <<call, args, pc, ret, DriverVars, DeviceVars>>

\* mutant of ExpectedRow: the clamp comes before the shift
ExpectedRow_clamp_first(acc, shift) == I8(ArithShift(Clamp8(acc), shift))

\* acc = acc >> shift; clamp to [-128, 127]; return (int8_t)acc
ExpectedRow(acc, shift) == I8(Clamp8(ArithShift(acc, shift)))

\* compute_expected_row returns; expected[row] = its value
compute_expected_row_return ==
    /\ call = "compute_expected"
    /\ pc = "cer_loop"
    /\ i >= args.K
    /\ local' = [local EXCEPT !.expected = Append(local.expected,
                                                   ExpectedRow(local.acc, args.shift)),
                              !.row = local.row + 1]
    /\ pc' = "ce_loop"
    /\ UNCHANGED <<call, args, i, ret, DriverVars, DeviceVars>>

\* the row loop ends
compute_expected_return ==
    /\ call = "compute_expected"
    /\ pc = "ce_loop"
    /\ local.row >= args.M
    /\ pc' = "done"
    /\ UNCHANGED <<call, args, local, i, ret, DriverVars, DeviceVars>>

RefInit ==
    /\ call = "compute_expected"
    /\ args \in RefArgs
    /\ local = [row |-> 0, acc |-> 0, expected |-> << >>]
    /\ pc = "ce_loop"
    /\ i = 0 /\ rows_done = 0 /\ tile_m = 0 /\ timeout_us = 0
    /\ wret = << >>
    /\ ret = << >>
    /\ results = << >>
    /\ cycles_out = 0
    /\ reg = ResetRegs /\ act = ResetAct /\ res = ResetRes
    /\ hw = IdleHw
    /\ ddr3 = << >>
    /\ log = << >>
    /\ stderr = << >>

RefNext ==
    \/ compute_expected_call
    \/ compute_expected_row_mac
    \/ compute_expected_row_return
    \/ compute_expected_return

RefSpec == RefInit /\ [][RefNext]_vars

\* the exact sum of the first k products of a row, and the whole row's
RECURSIVE RowSumTo(_, _)
RowSumTo(row, k) ==
    IF k = 0 THEN 0
    ELSE RowSumTo(row, k - 1) + args.wmat[row * args.K + k - 1] * args.acts[k - 1]

RowSum(row) == RowSumTo(row, args.K)

\* floor(x / 2^s) and the clamp to [lo, hi]
FloorShift(x, s) == x \div (2 ^ s)
ClampTo(x, lo, hi) == IF x < lo THEN lo ELSE IF x > hi THEN hi ELSE x

-----------------------------------------------------------------------------
(* C11: compute_expected_row returns clamp((sum_i weights_i * acts_i) >>   *)
(* shift, -128, 127): the sum in 32-bit signed arithmetic, the shift       *)
(* arithmetic (the sign is kept: a negative sum never gives a positive     *)
(* value), the clamp applied after the shift.  Shifts are in 0 .. 31.      *)

C11_ExpectedRowValue ==
    call = "compute_expected" =>
        /\ pc = "cer_loop" => local.acc = RowSumTo(local.row, i)
        /\ \A r \in 1 .. Len(local.expected) :
               LET sum == RowSum(r - 1)
                   out == local.expected[r]
               IN  /\ out = ClampTo(FloorShift(sum, args.shift), -128, 127)
                   /\ sum < 0 => out < 0
                   /\ sum >= 0 => out >= 0

\* a sum of 254 shifted by 1 gives 127; clamping first would give 63
C11_Witness ==
    /\ call = "compute_expected" /\ pc = "done"
    /\ args.shift = 1
    /\ RowSum(0) = 254
    /\ local.expected[1] = 127
    /\ FloorShift(ClampTo(RowSum(0), -128, 127), 1) = 63

-----------------------------------------------------------------------------
(* C12: for shifts s in 0 .. 9 the reference output for row r equals       *)
(* clamp(round_toward_zero((sum_k W[r,k] * a[k]) >> s), -128, 127) with    *)
(* the arithmetic shift: the shift gives the integer floor(sum / 2^s), on  *)
(* which the rounding changes nothing.                                     *)

\* round toward zero of the rational n / d, d > 0
RoundTowardZero(n, d) == IF n < 0 THEN -((-n) \div d) ELSE n \div d

C12_ShiftedClampedRow ==
    (call = "compute_expected" /\ pc = "done" /\ args.shift \in 0 .. 9) =>
        \A r \in 0 .. args.M - 1 :
            local.expected[r + 1]
                = ClampTo(RoundTowardZero(FloorShift(RowSum(r), args.shift), 1), -128, 127)

\* a row sum of -129 shifted by 1 gives -65 (the shift rounds down, not toward zero)
C12_Witness ==
    /\ call = "compute_expected" /\ pc = "done"
    /\ args.M = 2 /\ args.shift = 1
    /\ RowSum(0) = -129
    /\ local.expected[1] = -65
    /\ RoundTowardZero(RowSum(0), 2) = -64
    /\ local.expected[2] = 64

-----------------------------------------------------------------------------
(* C13: with shift 0 a sum of exactly 127 or exactly -128 is returned      *)
(* unchanged, every sum >= 128 gives 127 and every sum <= -129 gives -128; *)
(* the value returned always lies in -128 .. 127.                          *)

C13_ClampLimits ==
    call = "compute_expected" =>
        \A r \in 1 .. Len(local.expected) :
            LET sum == RowSum(r - 1)
                out == local.expected[r]
            IN  /\ out \in -128 .. 127
                /\ args.shift = 0 =>
                       /\ sum \in -128 .. 127 => out = sum
                       /\ sum >= 128 => out = 127
                       /\ sum <= -129 => out = -128

\* sums of 128 and -128: the first is clamped to 127, the second is returned as it is
C13_Witness ==
    /\ call = "compute_expected" /\ pc = "done"
    /\ args.shift = 0 /\ args.M = 2
    /\ RowSum(0) = 128 /\ local.expected[1] = 127
    /\ RowSum(1) = -128 /\ local.expected[2] = -128

-----------------------------------------------------------------------------
(* The weight codec on its own: pack_weights and pack_weights_128 applied  *)
(* to arrays of int8 values, and write_weight_matrix / write_test_weights  *)
(* writing matrices whose K lies around the multiples of the tile width.   *)

\* pattern length of the arrays handed to pack_weights
PackPatLen == 2
\* rows and tiles per row of the matrices written
CodecMaxM == 2
CodecMaxTiles == 2

PackVals == {-128, -1, 0, 1, 2, 127}
PackCalls == {"pack_weights", "pack_weights_128"}

PackArgs(c) ==
    {[weights |-> [n \in 0 .. Build(c).pes - 1 |-> pat[n % PackPatLen]]] :
        pat \in [0 .. PackPatLen - 1 -> PackVals]}

\* the whole of pack_weights: memset(out, 0, ...), then the loop over the weights
pack_weights_call ==
    /\ call \in PackCalls
    /\ pc = "pack_weights"
    /\ local' = [out |-> PackWords(Build(call), args.weights)]
    /\ i' = Build(call).pes
    /\ pc' = "done"
    /\ UNCHANGED <<call, args, ret, DriverVars, DeviceVars>>

\* K around the multiples of the tile width, and one and a half tiles
CodecKs(c) ==
    LET pes == Build(c).pes
    IN  {k \in {t * pes + e : t \in 0 .. CodecMaxTiles, e \in {-1, 0, 1}} \cup {pes + pes \div 2} :
            k >= 1 /\ k <= CodecMaxTiles * pes}

\* matrices: all +1, all -1, and +1, -1, 0 in turn from each of the three phases
CodecMatrices(M, K) ==
    {[n \in 0 .. M * K - 1 |-> v] : v \in {1, -1}}
        \cup {[n \in 0 .. M * K - 1 |-> WeightPattern[((n + p) % 3) + 1]] : p \in 0 .. 2}

\* activations: all 1, or the pattern of ActVector
CodecActs(K) == {[n \in 0 .. K - 1 |-> 1], ActVector(K)}

\* what an activation register from K on may hold, left by earlier invocations
StaleActs == {0, 127, 128}

CodecArgs(c) ==
    IF c = "write_weight_matrix"
    THEN UNION {[wmat : CodecMatrices(M, K), M : {M}, K : {K}, acts : CodecActs(K),
                 stale : StaleActs] : <<M, K>> \in (1 .. CodecMaxM) \X CodecKs(c)}
    ELSE UNION {[fill_weight : {-1, 0, 1}, M : {M}, K : {K}, acts : CodecActs(K),
                 stale : StaleActs] : <<M, K>> \in (1 .. CodecMaxM) \X CodecKs(c)}

CodecInit ==
    /\ \/ /\ call \in PackCalls
          /\ args \in PackArgs(call)
          /\ pc = "pack_weights"
          /\ local = << >>
          /\ act = ResetAct
       \/ /\ call \in {"write_weight_matrix", "write_test_weights"}
          /\ args \in CodecArgs(call)
          /\ pc = "write_weight_matrix"
          /\ local = TileLoopStart
          /\ act = [n \in 0 .. CodecMaxTiles * Build(call).pes - 1 |->
                       IF n < args.K THEN U8(args.acts[n]) ELSE args.stale]
    /\ i = 0 /\ rows_done = 0 /\ tile_m = 0 /\ timeout_us = 0
    /\ wret = << >>
    /\ ret = << >>
    /\ results = << >>
    /\ cycles_out = 0
    /\ reg = ResetRegs /\ res = ResetRes
    /\ hw = IdleHw
    /\ ddr3 = << >>
    /\ log = << >>
    /\ stderr = << >>

CodecNext ==
    \/ pack_weights_call
    \/ write_weight_matrix_tile
    \/ write_weight_matrix_return

CodecSpec == CodecInit /\ [][CodecNext]_vars

\* the 2-bit field of lane l of a word
Field(w, l) == (w \div (4 ^ l)) % 4

-----------------------------------------------------------------------------
(* C14: pack_weights and pack_weights_128 put the code of coefficient i in *)
(* bits 2*(i mod 16), 2*(i mod 16)+1 of word i div 16: 01 for +1, 10 for   *)
(* -1, 00 for every other int8 value; no field of the output holds 11,     *)
(* and none of a tile written to DDR3 does.                                *)

C14_PackedFields ==
    /\ (call \in PackCalls /\ pc = "done") =>
           /\ DOMAIN local.out = 0 .. (Build(call).pes \div 16) - 1
           /\ \A n \in 0 .. Build(call).pes - 1 :
                  LET f == Field(local.out[n \div 16], n % 16)
                      w == args.weights[n]
                  IN  /\ f # 3
                      /\ f = (IF w = 1 THEN 1 ELSE IF w = -1 THEN 2 ELSE 0)
    /\ (call \in {"write_weight_matrix", "write_test_weights"}) =>
           \A w \in DOMAIN ddr3 : \A l \in 0 .. 15 : Field(ddr3[w], l) # 3

\* -128 in lane 0 is encoded as 00 and -1 in lane 15 as 10, which sets bit 31
C14_Witness ==
    /\ call = "pack_weights_128" /\ pc = "done"
    /\ args.weights[0] = -128 /\ args.weights[15] = -1
    /\ Field(local.out[0], 0) = 0
    /\ Field(local.out[7], 15) = 2
    /\ local.out[0] < 0

-----------------------------------------------------------------------------
(* C15: for an M x K matrix over {-1, 0, +1}, decoding the image that      *)
(* write_weight_matrix wrote, read at the layout's row and tile offsets    *)
(* for the columns below K, gives back the matrix.                         *)

C15_DecodeRecoversMatrix ==
    (call = "write_weight_matrix" /\ pc = "done") =>
        \A row \in 0 .. args.M - 1 : \A col \in 0 .. args.K - 1 :
            HwWeight(Build(call), HwRowAddr(Build(call), DDR3_BASE, row, args.K), col)
                = args.wmat[row * args.K + col]

\* two rows of 96 columns holding +1, -1 and 0, in two tiles a row
C15_Witness ==
    /\ call = "write_weight_matrix" /\ pc = "done"
    /\ args.M = 2 /\ args.K = 96
    /\ {args.wmat[n] : n \in 0 .. 2} = {-1, 0, 1}
    /\ Len(local.tiles) = 4

-----------------------------------------------------------------------------
(* C16: write_weight_matrix (and write_test_weights) writes tile (row,     *)
(* tile) at byte offset row * tiles_per_row * bytes_per_tile + tile *      *)
(* bytes_per_tile with tiles_per_row = ceil(K / tile_width): the row       *)
(* stride is the same for every row and is given by K alone, and distinct  *)
(* (row, tile) pairs occupy disjoint byte ranges, also with a partial last *)
(* tile.                                                                   *)

TileBytes(t) == {b \in 4 * t[3] .. 4 * t[3] + Build(call).tile_bytes - 1 : TRUE}

C16_TileLayout ==
    call \in {"write_weight_matrix", "write_test_weights"} =>
        LET bytes == Build(call).tile_bytes
            width == Build(call).pes
            tpr == IF args.K % width = 0 THEN args.K \div width ELSE args.K \div width + 1
            ts == local.tiles
        IN  /\ \A n \in 1 .. Len(ts) :
                   4 * ts[n][3] = ts[n][1] * tpr * bytes + ts[n][2] * bytes
            /\ \A n, m \in 1 .. Len(ts) :
                   n # m => /\ <<ts[n][1], ts[n][2]>> # <<ts[m][1], ts[m][2]>>
                            /\ TileBytes(ts[n]) \cap TileBytes(ts[m]) = {}
            /\ \A n, m \in 1 .. Len(ts) :
                   (ts[m][1] = ts[n][1] + 1 /\ ts[m][2] = ts[n][2]) =>
                       4 * (ts[m][3] - ts[n][3]) = tpr * bytes
            /\ pc = "done" =>
                   /\ {<<ts[n][1], ts[n][2]>> : n \in 1 .. Len(ts)}
                          = (0 .. args.M - 1) \X (0 .. tpr - 1)
                   /\ DOMAIN ddr3 = 0 .. (args.M * tpr * bytes) \div 4 - 1

\* K = 65: two tiles a row, the second holding one column; the second row
\* starts 32 bytes after the first
C16_Witness ==
    /\ call = "write_weight_matrix" /\ pc = "done"
    /\ args.M = 2 /\ args.K = 65
    /\ Len(local.tiles) = 4
    /\ local.tiles[3] = <<1, 0, 8>>
    /\ local.tiles[4] = <<1, 1, 12>>

-----------------------------------------------------------------------------
(* C17: for K not a multiple of the tile width every column from K on of   *)
(* the last tile is encoded as weight 0, so the dot product over whole     *)
(* tiles equals the reference dot product over the first K columns,        *)
(* whatever the activation registers from K on hold.                       *)

\* the reference dot product of a row over the columns lo .. hi - 1
RECURSIVE RefDotRange(_, _, _)
RefDotRange(row, lo, hi) ==
    IF hi <= lo THEN 0
    ELSE IF hi = lo + 1 THEN WeightAt(row, lo) * args.acts[lo]
    ELSE LET mid == (lo + hi) \div 2
         IN  RefDotRange(row, lo, mid) + RefDotRange(row, mid, hi)

C17_PaddingIsZero ==
    (call \in {"write_weight_matrix", "write_test_weights"} /\ pc = "done") =>
        LET b == Build(call)
            whole == TilesPerRow(args.K, b.pes) * b.pes
        IN  \A row \in 0 .. args.M - 1 :
                LET rowaddr == HwRowAddr(b, DDR3_BASE, row, args.K)
                IN  /\ \A col \in args.K .. whole - 1 : HwWeight(b, rowaddr, col) = 0
                    /\ HwDot(b, rowaddr, act, whole) = RefDotRange(row, 0, args.K)

\* K = 96, all weights +1 and activations 1, the registers from 96 on hold
\* 127: the dot product over both tiles is 96
C17_Witness ==
    /\ call = "write_weight_matrix" /\ pc = "done"
    /\ args.K = 96 /\ args.M = 1
    /\ \A n \in 0 .. 95 : args.wmat[n] = 1 /\ args.acts[n] = 1
    /\ args.stale = 127 /\ act[100] = 127
    /\ HwDot(Build(call), DDR3_BASE, act, 128) = 96

-----------------------------------------------------------------------------
(* Two consecutive calls of run_test on one device, as the back-to-back    *)
(* tests make them: the second call finds the registers, the activation    *)
(* registers, the weight memory and the accelerator as the first left      *)
(* them.  A job of the first call that is still running when the second    *)
(* call rewrites the weight memory is taken to read the rewritten words.   *)

\* the arguments of the second call: those of RunTestArgs, and the same
\* with all weights -1 and all activations 1
SecondRunArgs ==
    RunTestArgs \cup
    {[a EXCEPT !.wmat = [n \in DOMAIN a.wmat |-> -1],
               !.activations = [n \in DOMAIN a.activations |-> 1]] : a \in RunTestArgs}

\* the first call has returned; the test calls run_test again
run_test_again ==
    /\ call = "run_test"
    /\ pc = "done"
    /\ local.first = << >>
    /\ args' \in SecondRunArgs
    /\ local' = [row |-> 0, tile |-> 0, tiles |-> << >>, first |-> ret]
    /\ pc' = "write_weight_matrix"
    /\ i' = 0
    /\ timeout_us' = 0
    /\ wret' = << >>
    /\ ret' = << >>
    /\ results' = << >>
    /\ log' = << >>
    /\ UNCHANGED <<call, rows_done, tile_m, cycles_out, reg, act, res, hw, ddr3, stderr>>

SeqInit ==
    /\ call = "run_test"
    /\ args \in RunTestArgs
    /\ local = [row |-> 0, tile |-> 0, tiles |-> << >>, first |-> << >>]
    /\ pc = "write_weight_matrix"
    /\ i = 0 /\ rows_done = 0 /\ tile_m = 0 /\ timeout_us = 0
    /\ wret = << >>
    /\ ret = << >>
    /\ results = << >>
    /\ cycles_out = 0
    /\ reg = ResetRegs /\ act = ResetAct /\ res = ResetRes
    /\ hw = IdleHw
    /\ ddr3 = << >>
    /\ log = << >>
    /\ stderr = << >>

SeqNext ==
    \/ write_weight_matrix_tile
    \/ write_weight_matrix_return
    \/ run_test_config
    \/ write_activations
    \/ write_activations_return
    \/ run_test_start
    \/ fpga_wait_done_poll
    \/ fpga_wait_done_expire
    \/ run_test_timeout
    \/ run_test_read
    \/ run_test_again
    \/ HwFinish

SeqSpec == SeqInit /\ [][SeqNext]_vars

\* what the call's own arguments give for row j: the reference value
RECURSIVE RunDotTo(_, _)
RunDotTo(j, k) ==
    IF k = 0 THEN 0
    ELSE RunDotTo(j, k - 1) + args.wmat[j * args.K + k - 1] * args.activations[k - 1]

OwnResult(j) == ClampTo(FloorShift(RunDotTo(j, args.K), args.shift), -128, 127)

ResultsAreOwn == \A j \in 0 .. args.M - 1 : BufAt(Build(call), results, j) = OwnResult(j)

-----------------------------------------------------------------------------
(* C18 as claimed: of any two consecutive run_test calls, the results of   *)
(* the second are those the same call gives as the first call on a freshly *)
(* reset device, a function of its own arguments.                          *)

-----------------------------------------------------------------------------
(* mnist_inference.c: fpga_inference(image, layer_cycles) and the report   *)
(* of mode_files.  The layer dimensions and the packed weights come from   *)
(* generated/mnist_weights.h; the model draws the dimensions from small    *)
(* sets, a layer's input dimension being the output dimension of the layer *)
(* before it, and the packed weights from a few ternary patterns.          *)

InfMaxDim == 3
InfMaxClasses == 2

\* L1_M .. L3_SHIFT
Nets ==
    {[L1_M |-> m1, L1_K |-> k1, L1_SHIFT |-> s, L2_M |-> m2, L2_K |-> m1, L2_SHIFT |-> 0,
      L3_M |-> m3, L3_K |-> m2, L3_SHIFT |-> s] :
        m1 \in 1 .. InfMaxDim, k1 \in {1, InfMaxDim}, m2 \in 1 .. InfMaxDim,
        m3 \in 1 .. InfMaxClasses, s \in {0, MaxShift}}

\* Ln_DDR3_BYTES: the packed size of an M x K layer
LayerBytes(M, K) == M * TilesPerRow(K, NUM_PES) * TC_BYTES_PER_TILE

\* load_weights_to_ddr3: the layers are placed one after the other
ddr3_l1_offset == 0
ddr3_l2_offset(net) == LayerBytes(net.L1_M, net.L1_K)
ddr3_l3_offset(net) == ddr3_l2_offset(net) + LayerBytes(net.L2_M, net.L2_K)

\* the ternary weights of the model's two networks, by layer, row and column
NetKinds == {"signed", "cyclic"}
NetWeight(kind, layer, r, c) ==
    IF kind = "cyclic" THEN WeightPattern[((layer + r + c) % 3) + 1]
    ELSE CASE layer = 1 -> IF r % 2 = 0 THEN 1 ELSE -1
           [] layer = 2 -> IF r % 3 = 2 THEN -1 ELSE 1
           [] OTHER -> IF r = 0 \/ c = 0 THEN -1 ELSE 0

\* l1_packed, l2_packed, l3_packed as load_weights_to_ddr3 copies them, by
\* word index from the start of the weight region: the tiles of a layer as
\* pack_weights packs them, a row after the other
LoadedNet(net, kind) ==
    LET words == TC_BYTES_PER_TILE \div 4
        l2 == ddr3_l2_offset(net) \div 4
        l3 == ddr3_l3_offset(net) \div 4
        end == l3 + LayerBytes(net.L3_M, net.L3_K) \div 4
        Word(layer, K, n) ==
            LET tile == n \div words
                row == tile \div TilesPerRow(K, NUM_PES)
                col == (tile % TilesPerRow(K, NUM_PES)) * NUM_PES
                chunk == [q \in 0 .. NUM_PES - 1 |->
                             IF col + q < K THEN NetWeight(kind, layer, row, col + q) ELSE 0]
            IN  pack_weights(chunk)[n % words]
    IN  [w \in 0 .. end - 1 |->
            IF w < l2 THEN Word(1, net.L1_K, w)
            ELSE IF w < l3 THEN Word(2, net.L2_K, w - l2)
            ELSE Word(3, net.L3_K, w - l3)]

\* the images of the model: preprocessed pixels
Images(K) == {ActVector(K), [n \in 0 .. K - 1 |-> 1]}

\* the arguments fpga_inference passes to fpga_layer for a stage
LayerCall(net, stage, activations) ==
    [activations |-> activations,
     M |-> IF stage = 1 THEN net.L1_M ELSE IF stage = 2 THEN net.L2_M ELSE net.L3_M,
     K |-> IF stage = 1 THEN net.L1_K ELSE IF stage = 2 THEN net.L2_K ELSE net.L3_K,
     shift |-> IF stage = 1 THEN net.L1_SHIFT ELSE IF stage = 2 THEN net.L2_SHIFT
               ELSE net.L3_SHIFT,
     ddr3_byte_offset |-> IF stage = 1 THEN ddr3_l1_offset
                          ELSE IF stage = 2 THEN ddr3_l2_offset(net) ELSE ddr3_l3_offset(net),
     cycles_out |-> TRUE]

\* mutant of relu_int8: the buffer is left as it is
relu_int8_skipped(buf, n) == buf

\* for (i = 0; i < n; i++) if (buf[i] < 0) buf[i] = 0
relu_int8(buf, n) == [j \in DOMAIN buf |-> IF j < n /\ buf[j] < 0 THEN 0 ELSE buf[j]]

\* best = 0; for (i = 1; i < n; i++) if (buf[i] > buf[best]) best = i
RECURSIVE argmax_int8_from(_, _, _, _)
argmax_int8_from(buf, n, j, best) ==
    IF j >= n THEN best
    ELSE argmax_int8_from(buf, n, j + 1, IF buf[j] > buf[best] THEN j ELSE best)

\* mutant of argmax_int8: the comparison is >=, so the last maximum wins
RECURSIVE argmax_int8_ge_from(_, _, _, _)
argmax_int8_ge_from(buf, n, j, best) ==
    IF j >= n THEN best
    ELSE argmax_int8_ge_from(buf, n, j + 1, IF buf[j] >= buf[best] THEN j ELSE best)

argmax_int8_last(buf, n) == argmax_int8_ge_from(buf, n, 1, 0)

argmax_int8(buf, n) == argmax_int8_from(buf, n, 1, 0)

\* the buffer fpga_layer filled
LayerBuf == [j \in 0 .. args.M - 1 |-> BufAt(Build(call), results, j)]

\* Layer1 or Layer2 returned 0: relu_int8 over its output, then the call of
\* fpga_layer for the next stage with that buffer as activations
fpga_inference_relu ==
    /\ call = "fpga_inference"
    /\ pc = "done"
    /\ ret = <<0>>
    /\ local.stage < 3
    /\ LET buf == relu_int8(LayerBuf, args.M)
       IN  /\ local' = [local EXCEPT !.stage = local.stage + 1,
                                     !.bufs = Append(local.bufs, buf),
                                     !.layer_cycles = Append(local.layer_cycles, cycles_out)]
           /\ args' = LayerCall(local.net, local.stage + 1, buf)
    /\ pc' = "write_activations"
    /\ i' = 0
    /\ wret' = << >>
    /\ ret' = << >>
    /\ results' = << >>
    /\ UNCHANGED <<call, rows_done, tile_m, timeout_us, cycles_out, reg, act, res, hw, ddr3,
                   log, stderr>>

\* Layer3 returned 0: return argmax_int8(buf3, L3_M)
fpga_inference_argmax ==
    /\ call = "fpga_inference"
    /\ pc = "done"
    /\ ret = <<0>>
    /\ local.stage = 3
    /\ local' = [local EXCEPT !.bufs = Append(local.bufs, LayerBuf),
                              !.layer_cycles = Append(local.layer_cycles, cycles_out),
                              !.pred = <<argmax_int8(LayerBuf, args.M)>>]
    /\ pc' = "returned"
    /\ UNCHANGED <<call, args, i, rows_done, tile_m, timeout_us, wret, results, ret,
                   cycles_out, reg, act, res, hw, ddr3, log, stderr>>

\* mutant of fpga_inference_abort: the return value of fpga_layer is not
\* tested and the arg-max of the stage's buffer is returned
fpga_inference_abort_unchecked ==
    /\ call = "fpga_inference"
    /\ pc = "done"
    /\ ret = <<-1>>
    /\ local' = [local EXCEPT !.pred = <<argmax_int8(LayerBuf, args.M)>>]
    /\ pc' = "returned"
    /\ UNCHANGED <<call, args, i, rows_done, tile_m, timeout_us, wret, results, ret,
                   cycles_out, reg, act, res, hw, ddr3, log, stderr>>

\* fpga_layer(...) < 0: return -1
fpga_inference_abort ==
    /\ call = "fpga_inference"
    /\ pc = "done"
    /\ ret = <<-1>>
    /\ local' = [local EXCEPT !.pred = <<-1>>]
    /\ pc' = "returned"
    /\ UNCHANGED <<call, args, i, rows_done, tile_m, timeout_us, wret, results, ret,
                   cycles_out, reg, act, res, hw, ddr3, log, stderr>>

\* mode_files and mode_dir after fpga_inference: "<file>: FPGA timeout" on
\* stderr and on to the next file when pred < 0, else count++ and the line
\* with the file, the class and the sum of the three cycle counts
mode_files_report ==
    /\ call = "fpga_inference"
    /\ pc = "returned"
    /\ local.mode # "benchmark"
    /\ IF local.pred[1] < 0
       THEN /\ stderr' = Append(stderr, <<"FPGA timeout", local.idx>>)
            /\ UNCHANGED local
       ELSE /\ local' =
                [local EXCEPT
                   !.count = local.count + 1,
                   !.stdout = Append(local.stdout,
                                     <<"->", local.idx, local.pred[1],
                                       AddU32(AddU32(local.layer_cycles[1],
                                                     local.layer_cycles[2]),
                                              local.layer_cycles[3])>>)]
            /\ UNCHANGED stderr
    /\ pc' = "next_file"
    /\ UNCHANGED <<call, args, i, rows_done, tile_m, timeout_us, wret, results, ret,
                   cycles_out, reg, act, res, hw, ddr3, log>>

InfInit ==
    /\ call = "fpga_inference"
    /\ \E net \in Nets : \E image \in Images(net.L1_K) : \E kind \in NetKinds :
          /\ local = [mode |-> "files", idx |-> 1, net |-> net, image |-> image,
                      stage |-> 1, bufs |-> << >>, layer_cycles |-> << >>, pred |-> << >>,
                      stdout |-> << >>, count |-> 0]
          /\ args = LayerCall(net, 1, image)
          /\ ddr3 = LoadedNet(net, kind)
    /\ pc = "write_activations"
    /\ i = 0 /\ rows_done = 0 /\ tile_m = 0 /\ timeout_us = 0
    /\ wret = << >>
    /\ ret = << >>
    /\ results = << >>
    /\ cycles_out = 0
    /\ reg = ResetRegs /\ res = ResetRes
    /\ act = [n \in 0 .. InfMaxDim - 1 |-> 0]
    /\ hw = IdleHw
    /\ log = << >>
    /\ stderr = << >>

InfNext ==
    \/ write_activations
    \/ write_activations_return
    \/ fpga_layer_config
    \/ fpga_layer_start
    \/ fpga_wait_done_poll
    \/ fpga_wait_done_expire
    \/ fpga_layer_timeout
    \/ fpga_layer_read
    \/ fpga_inference_relu
    \/ fpga_inference_argmax
    \/ fpga_inference_abort
    \/ mode_files_report
    \/ HwFinish

InfSpec == InfInit /\ [][InfNext]_vars

\* the output of the n-th job the accelerator completed, as read_results reads it
StageOut(n) == [j \in 0 .. res[n].job.m - 1 |-> I8(ResWord(Build(call), <<res[n]>>, j))]

\* the job fpga_inference sets up for a stage
StageJob(n) ==
    LET c == LayerCall(local.net, n, << >>)
    IN  [base |-> DDR3_BASE + c.ddr3_byte_offset, m |-> c.M, k |-> c.K, shift |-> c.shift]

Rectified(buf) == [j \in DOMAIN buf |-> IF buf[j] < 0 THEN 0 ELSE buf[j]]

IsPrefix(a, b) == Len(a) <= Len(b) /\ a = SubSeq(b, 1, Len(a))

Values(ws) == [n \in 1 .. Len(ws) |-> ws[n][3]]

-----------------------------------------------------------------------------
(* C19: fpga_inference runs Layer1, Layer2, Layer3 in this order, each at  *)
(* most once and against its own weight offset; the outputs of Layer1 and  *)
(* Layer2 are rectified (negative values 0, the others unchanged) before   *)
(* they are the next layer's activations, the output of Layer3 is not, and *)
(* the returned class is the arg-max of the Layer3 output.                 *)

C19_StagesInOrder ==
    call = "fpga_inference" =>
        /\ IsPrefix(Values(WritesTo(REG_WEIGHT_BASE)),
                    <<StageJob(1).base, StageJob(2).base, StageJob(3).base>>)
        /\ StageJob(1).base < StageJob(2).base /\ StageJob(2).base < StageJob(3).base
        /\ IsPrefix(Values(WritesTo(REG_DIM_M)),
                    <<StageJob(1).m, StageJob(2).m, StageJob(3).m>>)
        /\ IsPrefix(Values(WritesTo(REG_DIM_K)),
                    <<StageJob(1).k, StageJob(2).k, StageJob(3).k>>)
        /\ IsPrefix(Values(WritesTo(REG_CTRL)), <<1, 1, 1>>)
        /\ Len(WritesTo(REG_CTRL)) <= Len(WritesTo(REG_WEIGHT_BASE))
        /\ Len(WritesTo(REG_WEIGHT_BASE)) \in {local.stage - 1, local.stage}
        /\ \A n \in 1 .. Len(res) : res[n].job = StageJob(n)
        /\ local.stage = 1 => args.activations = local.image
        /\ local.stage > 1 =>
              /\ Len(res) >= local.stage - 1
              /\ args.activations = Rectified(StageOut(local.stage - 1))
              /\ local.bufs[local.stage - 1] = args.activations
        /\ pc \in {"weight_base", "dim_m", "dim_k", "shift_amt", "start", "wait", "waited"} =>
              \A j \in 0 .. args.K - 1 : act[j] = U8(args.activations[j])
        /\ (pc = "returned" /\ local.pred # <<-1>>) =>
              /\ Len(res) = 3
              /\ local.pred[1] \in DOMAIN StageOut(3)
              /\ \A j \in DOMAIN StageOut(3) : StageOut(3)[j] <= StageOut(3)[local.pred[1]]

\* an inference that returned a class other than 0 although every Layer3
\* output is negative, after a Layer1 and a Layer2 that each had a negative
\* output
C19_Witness ==
    /\ call = "fpga_inference"
    /\ pc = "returned"
    /\ local.pred # <<-1>>
    /\ local.pred[1] > 0
    /\ \A j \in DOMAIN StageOut(3) : StageOut(3)[j] < 0
    /\ \E j \in DOMAIN StageOut(1) : StageOut(1)[j] < 0
    /\ \E j \in DOMAIN StageOut(2) : StageOut(2)[j] < 0

-----------------------------------------------------------------------------
(* C20: when a stage of fpga_inference times out the pipeline aborts:      *)
(* fpga_inference returns -1, no later stage is configured or started, no  *)
(* arg-max is taken, and no class is reported for the image.               *)

\* the timeout messages of fpga_layer on stderr
LayerTimeouts == LET Is(e) == e[1] = "FPGA timeout!" IN SelectSeq(stderr, Is)

C20_TimeoutAborts ==
    (call = "fpga_inference" /\ LayerTimeouts # << >>) =>
        /\ Len(LayerTimeouts) = 1
        /\ pc \in {"done", "returned", "next_file"}
        /\ local.pred = IF pc = "done" THEN << >> ELSE <<-1>>
        /\ Len(WritesTo(REG_WEIGHT_BASE)) = local.stage
        /\ Len(WritesTo(REG_DIM_M)) = local.stage
        /\ Len(WritesTo(REG_CTRL)) = local.stage
        /\ IsStatusRead(log[Len(log)])
        /\ results = << >>
        /\ Len(local.bufs) = local.stage - 1
        /\ local.stdout = << >>
        /\ local.count = 0
        /\ pc = "next_file" => stderr[Len(stderr)] = <<"FPGA timeout", local.idx>>

\* Layer2 timed out after a Layer1 that succeeded; the Layer2 job completed
\* after the timeout, so that result registers of Layer2 exist, and the file
\* was reported as timed out
C20_Witness ==
    /\ call = "fpga_inference"
    /\ pc = "next_file"
    /\ local.stage = 2
    /\ local.pred = <<-1>>
    /\ Len(local.bufs) = 1
    /\ Len(res) = 2
    /\ hw.done
    /\ stderr = << <<"FPGA timeout!", args.M, args.K>>, <<"FPGA timeout", local.idx>> >>

-----------------------------------------------------------------------------
(* mnist_inference.c: main, mmap_init, and the three modes.  One process   *)
(* run: the mapping, load_weights_to_ddr3, then an fpga_inference for each *)
(* input of the batch that preprocess_image accepts, then the exit code.   *)

MaxItems == 2

\* the network of the process: generated/mnist_weights.h, one shape
MainNets ==
    {n \in Nets : n.L1_M = 2 /\ n.L1_K = 1 /\ n.L2_M = 3 /\ n.L3_M = 2 /\ n.L1_SHIFT = 0}

Modes == {"files", "dir", "benchmark"}

\* an input of the batch: a file preprocess_image accepts, with its pixels,
\* or one it rejects; the embedded test_images of the benchmark are all pixels.
\* The benchmark runs over both images, the files of a batch hold the first.
Items(mode, K) ==
    IF mode = "benchmark"
    THEN {[ok |-> TRUE, image |-> im] : im \in Images(K)}
    ELSE {[ok |-> TRUE, image |-> ActVector(K)],
          [ok |-> FALSE, image |-> [n \in 0 .. K - 1 |-> 0]]}

\* argv[start_idx ..], the image files of a directory, or test_images
Batches(mode, K) ==
    UNION {[1 .. n -> Items(mode, K)] : n \in (IF mode = "dir" THEN 0 ELSE 1) .. MaxItems}

\* the steps of mmap_init that can fail, with the message of perror
MapFailures == {"open /dev/mem", "mmap lw_bridge", "mmap ddr3"}

\* a failed mmap_init whose return value main does not look at
main_mmap_init_fail_unchecked ==
    /\ call = "main"
    /\ pc = "main"
    /\ \E f \in MapFailures : stderr' = stderr \o << <<f>>, <<"mmap_init failed">> >>
    /\ ddr3' = LoadedNet(local.net, local.kind)
    /\ pc' = IF local.mode = "dir" THEN "opendir" ELSE "next_file"
    /\ UNCHANGED <<call, args, local, i, rows_done, tile_m, timeout_us, wret, results, ret,
                   cycles_out, reg, act, res, hw, log>>

\* mmap_init() < 0: "mmap_init failed" on stderr, return 1
main_mmap_init_fail ==
    /\ call = "main"
    /\ pc = "main"
    /\ \E f \in MapFailures : stderr' = stderr \o << <<f>>, <<"mmap_init failed">> >>
    /\ local' = [local EXCEPT !.exit = <<1>>]
    /\ pc' = "exit"
    /\ UNCHANGED <<call, args, i, rows_done, tile_m, timeout_us, wret, results, ret,
                   cycles_out, reg, act, res, hw, ddr3, log>>

\* mmap_init() = 0, then load_weights_to_ddr3 and the call of the mode
main_load_weights ==
    /\ call = "main"
    /\ pc = "main"
    /\ ddr3' = LoadedNet(local.net, local.kind)
    /\ pc' = IF local.mode = "dir" THEN "opendir" ELSE "next_file"
    /\ UNCHANGED <<call, args, local, i, rows_done, tile_m, timeout_us, wret, results, ret,
                   cycles_out, reg, act, res, hw, log, stderr>>

\* mode_dir: dp = opendir(dirpath); if (!dp) { perror(dirpath); return 1; }
mode_dir_opendir ==
    /\ pc = "opendir"
    /\ \/ /\ pc' = "next_file"
          /\ UNCHANGED <<local, stderr>>
       \/ /\ stderr' = Append(stderr, <<"opendir">>)
          /\ local' = [local EXCEPT !.exit = <<1>>]
          /\ pc' = "exit"
    /\ UNCHANGED <<call, args, i, rows_done, tile_m, timeout_us, wret, results, ret,
                   cycles_out, reg, act, res, hw, ddr3, log>>

\* a rejected input that ends the loop in place of continue
mode_skip_item_break ==
    /\ pc = "next_file"
    /\ local.idx < Len(local.items)
    /\ ~local.items[local.idx + 1].ok
    /\ stderr' = Append(stderr, <<"Skipping", local.idx + 1>>)
    /\ local' = [local EXCEPT !.idx = Len(local.items)]
    /\ UNCHANGED <<call, args, pc, i, rows_done, tile_m, timeout_us, wret, results, ret,
                   cycles_out, reg, act, res, hw, ddr3, log>>

\* preprocess_image(...) < 0: "Skipping <file>" on stderr, continue
mode_skip_item ==
    /\ pc = "next_file"
    /\ local.idx < Len(local.items)
    /\ ~local.items[local.idx + 1].ok
    /\ stderr' = Append(stderr, <<"Skipping", local.idx + 1>>)
    /\ local' = [local EXCEPT !.idx = local.idx + 1]
    /\ UNCHANGED <<call, args, pc, i, rows_done, tile_m, timeout_us, wret, results, ret,
                   cycles_out, reg, act, res, hw, ddr3, log>>

\* the call of fpga_inference for the next input, up to its first fpga_layer;
\* log starts again, so that it holds the bus accesses of this inference
mode_call_inference ==
    /\ pc = "next_file"
    /\ local.idx < Len(local.items)
    /\ local.items[local.idx + 1].ok
    /\ local' = [local EXCEPT !.idx = local.idx + 1,
                              !.image = local.items[local.idx + 1].image,
                              !.stage = 1, !.bufs = << >>, !.layer_cycles = << >>,
                              !.pred = << >>]
    /\ args' = LayerCall(local.net, 1, local.items[local.idx + 1].image)
    /\ call' = "fpga_inference"
    /\ pc' = "write_activations"
    /\ i' = 0
    /\ wret' = << >>
    /\ ret' = << >>
    /\ results' = << >>
    /\ log' = << >>
    /\ UNCHANGED <<rows_done, tile_m, timeout_us, cycles_out, reg, act, res, hw, ddr3, stderr>>

\* mode_benchmark after fpga_inference: "FPGA TIMEOUT" on stdout and continue
\* when fpga_pred < 0, else the line with the prediction and the cycle counts
mode_benchmark_report ==
    /\ call = "fpga_inference"
    /\ pc = "returned"
    /\ local.mode = "benchmark"
    /\ local' = [local EXCEPT
                   !.stdout = Append(local.stdout,
                                     IF local.pred[1] < 0 THEN <<"FPGA TIMEOUT", local.idx>>
                                     ELSE <<"FPGA=", local.idx, local.pred[1],
                                            local.layer_cycles>>)]
    /\ pc' = "next_file"
    /\ UNCHANGED <<call, args, i, rows_done, tile_m, timeout_us, wret, results, ret,
                   cycles_out, reg, act, res, hw, ddr3, log, stderr>>

\* the loop of the mode ends: mode_files and mode_dir return 1 when count is
\* 0 and 0 otherwise, mode_benchmark returns 0; main returns that value
mode_return ==
    /\ pc = "next_file"
    /\ local.idx >= Len(local.items)
    /\ IF local.mode # "benchmark" /\ local.count = 0
       THEN /\ stderr' = Append(stderr, <<"No images processed.">>)
            /\ local' = [local EXCEPT !.exit = <<1>>]
       ELSE /\ local' = [local EXCEPT !.exit = <<0>>]
            /\ UNCHANGED stderr
    /\ pc' = "exit"
    /\ UNCHANGED <<call, args, i, rows_done, tile_m, timeout_us, wret, results, ret,
                   cycles_out, reg, act, res, hw, ddr3, log>>

MainInit ==
    /\ call = "main"
    /\ \E net \in MainNets : \E mode \in Modes : \E items \in Batches(mode, net.L1_K) :
          /\ local = [mode |-> mode, items |-> items, kind |-> "signed", idx |-> 0,
                      net |-> net, image |-> [n \in 0 .. net.L1_K - 1 |-> 0], stage |-> 1,
                      bufs |-> << >>, layer_cycles |-> << >>, pred |-> << >>,
                      stdout |-> << >>, count |-> 0, exit |-> << >>]
          /\ args = LayerCall(net, 1, [n \in 0 .. net.L1_K - 1 |-> 0])
    /\ pc = "main"
    /\ i = 0 /\ rows_done = 0 /\ tile_m = 0 /\ timeout_us = 0
    /\ wret = << >>
    /\ ret = << >>
    /\ results = << >>
    /\ cycles_out = 0
    /\ reg = ResetRegs /\ res = ResetRes
    /\ act = [n \in 0 .. InfMaxDim - 1 |-> 0]
    /\ hw = IdleHw
    /\ ddr3 = << >>
    /\ log = << >>
    /\ stderr = << >>

MainNext ==
    \/ main_mmap_init_fail
    \/ main_load_weights
    \/ mode_dir_opendir
    \/ mode_skip_item
    \/ mode_call_inference
    \/ write_activations
    \/ write_activations_return
    \/ fpga_layer_config
    \/ fpga_layer_start
    \/ fpga_wait_done_poll
    \/ fpga_wait_done_expire
    \/ fpga_layer_timeout
    \/ fpga_layer_read
    \/ fpga_inference_relu
    \/ fpga_inference_argmax
    \/ fpga_inference_abort
    \/ mode_files_report
    \/ mode_benchmark_report
    \/ mode_return
    \/ HwFinish

MainSpec == MainInit /\ [][MainNext]_vars

\* the class of an image on a freshly reset device: the layers computed
\* from the network's weights
RECURSIVE NetDotTo(_, _, _, _)
NetDotTo(layer, r, a, k) ==
    IF k = 0 THEN 0
    ELSE NetDotTo(layer, r, a, k - 1) + NetWeight(local.kind, layer, r, k - 1) * a[k - 1]

NetLayer(layer, a, M, K, shift) ==
    [r \in 0 .. M - 1 |-> ClampTo(FloorShift(NetDotTo(layer, r, a, K), shift), -128, 127)]

NetClass(image) ==
    LET n == local.net
        o1 == Rectified(NetLayer(1, image, n.L1_M, n.L1_K, n.L1_SHIFT))
        o2 == Rectified(NetLayer(2, o1, n.L2_M, n.L2_K, n.L2_SHIFT))
        o3 == NetLayer(3, o2, n.L3_M, n.L3_K, n.L3_SHIFT)
    IN  CHOOSE c \in DOMAIN o3 :
            /\ \A j \in DOMAIN o3 : o3[j] <= o3[c]
            /\ \A j \in DOMAIN o3 : o3[j] = o3[c] => c <= j

\* an fpga_inference of this process has timed out before
FailedBefore == \E n \in 1 .. Len(stderr) : stderr[n][1] = "FPGA timeout!"
\* the messages of a kind on stderr
Stderr(kind) == LET Is(e) == e[1] = kind IN SelectSeq(stderr, Is)

-----------------------------------------------------------------------------
(* C21: after an fpga_inference that failed with a timeout, the next       *)
(* fpga_inference on which no timeout occurs returns the class it would    *)
(* return had the failed inference never happened.                         *)

C21_NextInferenceUnaffected ==
    (call = "fpga_inference" /\ pc = "returned" /\ local.pred # <<-1>>) =>
        local.pred = <<NetClass(local.image)>>

-----------------------------------------------------------------------------
(* C22: the exit code of mnist_inference is 1 whenever a hardware timeout, *)
(* a device-mapping failure or a file I/O failure occurred during the run, *)
(* and 0 only when every invoked inference succeeded.                      *)

FailureOccurred ==
    \/ FailedBefore
    \/ Stderr("Skipping") # << >>
    \/ Stderr("mmap_init failed") # << >>
    \/ Stderr("opendir") # << >>

C22_ExitCodeReportsFailure ==
    (pc = "exit" /\ FailureOccurred) => local.exit = <<1>>

-----------------------------------------------------------------------------
(* C23: fpga_bitlinear returns raw accumulators: SHIFT_AMT is written with *)
(* 0 before the first start pulse and not again, and each results[i] read  *)
(* from the accelerator is the full 32-bit value of the result register    *)
(* as a signed number, with no shift and no clamp by the driver.           *)

\* the rows of a tile the value check looks at: the first and the last
EdgeRows(st) == {st.from, st.from + st.n - 1}

-----------------------------------------------------------------------------
(* test_fpga_driver.c: test_basic and test_max_k.  write_test_weights(M, K, *)
(* 1), then fpga_bitlinear over K uniform activations a.  The tests name a  *)
(* shift and put it in the call; fpga_bitlinear has no such parameter, so   *)
(* the shift stays in the frame of the test.                                *)

DrvMaxKTiles == 2
DrvMaxM == 2

\* shift of test_basic, of test_max_k, and none
DrvShifts == {0, 4, 5}

DrvArgs ==
    [fill_weight : {1}, M : 1 .. DrvMaxM, K : {t * FPGA_NUM_PES : t \in 1 .. DrvMaxKTiles}]

\* write_test_weights has returned: the call of fpga_bitlinear with
\* weight_base = DDR3_BASE and stride = (K / FPGA_NUM_PES) * FPGA_BYTES_PER_BEAT
test_call_fpga_bitlinear ==
    /\ call = "write_test_weights"
    /\ pc = "done"
    /\ call' = "fpga_bitlinear"
    /\ args' = [activations |-> [n \in 0 .. args.K - 1 |-> local.a], K |-> args.K,
                weight_base |-> DDR3_BASE, M |-> args.M,
                stride |-> (args.K \div FPGA_NUM_PES) * FPGA_BYTES_PER_BEAT]
    /\ pc' = "bl_act"
    /\ i' = 0
    /\ UNCHANGED <<local, rows_done, tile_m, timeout_us, wret, results, ret, cycles_out,
                   reg, act, res, hw, ddr3, log, stderr>>

DrvInit ==
    /\ call = "write_test_weights"
    /\ args \in DrvArgs
    /\ \E a \in {1, 2} : \E shift \in DrvShifts :
          local = [row |-> 0, tile |-> 0, tiles |-> << >>, a |-> a, shift |-> shift]
    /\ pc = "write_weight_matrix"
    /\ i = 0 /\ rows_done = 0 /\ tile_m = 0 /\ timeout_us = 0
    /\ wret = << >>
    /\ ret = << >>
    /\ results = << >>
    /\ cycles_out = 0
    /\ reg = ResetRegs /\ res = ResetRes
    /\ act = [n \in 0 .. DrvMaxKTiles * FPGA_NUM_PES - 1 |-> 0]
    /\ hw = IdleHw
    /\ ddr3 = << >>
    /\ log = << >>
    /\ stderr = << >>

DrvNext ==
    \/ write_weight_matrix_tile
    \/ write_weight_matrix_return
    \/ test_call_fpga_bitlinear
    \/ fpga_bitlinear_write_act
    \/ fpga_bitlinear_set_k
    \/ fpga_bitlinear_set_shift
    \/ fpga_bitlinear_tile_base
    \/ fpga_bitlinear_set_m
    \/ fpga_bitlinear_start
    \/ fpga_wait_done_poll
    \/ fpga_wait_done_expire
    \/ fpga_bitlinear_timeout
    \/ fpga_bitlinear_read
    \/ fpga_bitlinear_return
    \/ HwFinish

DrvSpec == DrvInit /\ [][DrvNext]_vars

\* fpga_bitlinear has returned to the test without a timeout
DrvDelivered == call = "fpga_bitlinear" /\ pc = "done" /\ stderr = << >>

-----------------------------------------------------------------------------
(* C24 as claimed: for all +1 weights and uniform activations a, with K a  *)
(* multiple of 128, each of the M results fpga_bitlinear delivers equals   *)
(* (K * a) >> shift for the shift the caller passes.                       *)

C24_ShiftedUniformProduct ==
    DrvDelivered =>
        \A j \in 0 .. args.M - 1 :
            BufAt(Build(call), results, j) = FloorShift(args.K * local.a, local.shift)

\* What fpga_bitlinear delivers instead: K * a, the unshifted sum, whatever
\* shift the test names (K = 128, a = 2 gives 256 in every row).
DrvRawUniformProduct ==
    DrvDelivered =>
        \A j \in 0 .. args.M - 1 : BufAt(Build(call), results, j) = args.K * local.a

-----------------------------------------------------------------------------
(* bitnet_fpga.h: fpga_load_weights.  The file is the sequence of its      *)
(* bytes; the region is mapped over fpga_ddr3_span bytes and ddr3 holds    *)
(* its words, all of them written before the call.  long and size_t are    *)
(* 32 bits wide on the board.                                              *)

\* the span of the mapping in bytes ranges over 1 .. LoadMaxSpan, the length
\* of the file over 0 .. LoadMaxSpan + 1
LoadMaxSpan == 5

\* 0x55 and 0xAA
FileBytes == {85, 170}

\* 0x66666666, in every word of the region before the call
PriorWord == MkWord(26214, 26214)

\* a > b for uint32_t
GtU32(a, b) == Hi16(a) > Hi16(b) \/ (Hi16(a) = Hi16(b) /\ Lo16(a) > Lo16(b))

\* byte k of a word and the word of four bytes, little-endian
ByteOf(w, k) ==
    CASE k = 0 -> Lo16(w) % 256
      [] k = 1 -> Lo16(w) \div 256
      [] k = 2 -> Hi16(w) % 256
      [] OTHER -> Hi16(w) \div 256
WordOfBytes(b0, b1, b2, b3) == MkWord(b3 * 256 + b2, b1 * 256 + b0)

\* byte p of the region
RegionByte(mem, p) == ByteOf(mem[p \div 4], p % 4)

\* fread(fpga_ddr3, 1, size, f) that delivered the first n bytes of the file
fread(mem, bytes, n) ==
    LET B(p) == IF p < n THEN bytes[p + 1] ELSE RegionByte(mem, p)
    IN  [w \in DOMAIN mem |-> WordOfBytes(B(4 * w), B(4 * w + 1), B(4 * w + 2), B(4 * w + 3))]

ExceedsSpan_inclusive(size, span) == GtU32(size, span) \/ size = span

\* (uint32_t)size > fpga_ddr3_span
ExceedsSpan(size, span) == GtU32(size, span)

LoadArgs ==
    [fpga_ddr3_span : 1 .. LoadMaxSpan,
     file : [exists : BOOLEAN,
             bytes : UNION {[1 .. n -> FileBytes] : n \in 0 .. LoadMaxSpan + 1}]]

LoadReturn(r, msg, size, read) ==
    /\ ret' = <<r>>
    /\ stderr' = stderr \o msg
    /\ local' = [local EXCEPT !.size = size, !.read = read]
    /\ pc' = "done"
    /\ UNCHANGED <<call, args, i, rows_done, tile_m, timeout_us, wret, results, cycles_out,
                   reg, act, res, hw, log>>

\* fopen fails
fpga_load_weights_fopen ==
    /\ call = "fpga_load_weights"
    /\ pc = "fopen"
    /\ ~args.file.exists
    /\ LoadReturn(-1, <<"fpga_load_weights: fopen">>, local.size, local.read)
    /\ UNCHANGED ddr3

\* ftell gives the length of the file, or -1 when it fails, and the check
\* against the span rejects the file
fpga_load_weights_exceeds ==
    /\ call = "fpga_load_weights"
    /\ pc = "fopen"
    /\ args.file.exists
    /\ \E size \in {Len(args.file.bytes), -1} :
          /\ ExceedsSpan(size, args.fpga_ddr3_span)
          /\ LoadReturn(-1, <<"fpga_load_weights: file exceeds DDR3 span">>, size, local.read)
    /\ UNCHANGED ddr3

\* the check passes; fread delivers all the bytes or fewer
fpga_load_weights_fread ==
    /\ call = "fpga_load_weights"
    /\ pc = "fopen"
    /\ args.file.exists
    /\ LET size == Len(args.file.bytes)
       IN  /\ ~ExceedsSpan(size, args.fpga_ddr3_span)
           /\ \E read \in 0 .. size :
                 /\ ddr3' = fread(ddr3, args.file.bytes, read)
                 /\ IF read # size
                    THEN LoadReturn(-1, <<"fpga_load_weights: short read">>, size, read)
                    ELSE LoadReturn(0, << >>, size, read)

LoadInit ==
    /\ call = "fpga_load_weights"
    /\ args \in LoadArgs
    /\ local = [size |-> 0, read |-> 0]
    /\ pc = "fopen"
    /\ i = 0 /\ rows_done = 0 /\ tile_m = 0 /\ timeout_us = 0
    /\ wret = << >>
    /\ ret = << >>
    /\ results = << >>
    /\ cycles_out = 0
    /\ reg = ResetRegs /\ res = ResetRes
    /\ act = [n \in 0 .. 0 |-> 0]
    /\ hw = IdleHw
    /\ ddr3 = [w \in 0 .. (args.fpga_ddr3_span + 3) \div 4 - 1 |-> PriorWord]
    /\ log = << >>
    /\ stderr = << >>

LoadNext ==
    \/ fpga_load_weights_fopen
    \/ fpga_load_weights_exceeds
    \/ fpga_load_weights_fread

LoadSpec == LoadInit /\ [][LoadNext]_vars

\* the region as it was before the call
PriorRegion == [w \in DOMAIN ddr3 |-> PriorWord]

\* fpga_load_weights has returned for a file that opened, whose length
\* ftell gave, and whose bytes the read delivered in full when it was attempted
LoadedFile ==
    /\ call = "fpga_load_weights" /\ pc = "done"
    /\ args.file.exists
    /\ local.size = Len(args.file.bytes)
    /\ stderr # <<"fpga_load_weights: short read">>

-----------------------------------------------------------------------------
(* C25: fpga_load_weights returns -1 and writes no byte of the weight      *)
(* region when the length of the file exceeds the span of the mapping; a   *)
(* file whose length is at most the span, the span itself included, is     *)
(* copied to the start of the region and the call returns 0.               *)

C25_LoadBoundedBySpan ==
    LoadedFile =>
        LET n == Len(args.file.bytes)
        IN  IF n > args.fpga_ddr3_span
            THEN ret = <<-1>> /\ ddr3 = PriorRegion
            ELSE /\ ret = <<0>>
                 /\ \A p \in 0 .. 4 * Cardinality(DOMAIN ddr3) - 1 :
                       RegionByte(ddr3, p) =
                           IF p < n THEN args.file.bytes[p + 1] ELSE ByteOf(PriorWord, p % 4)

\* a file exactly as long as the span, longer than one word, has been copied
C25_Witness ==
    /\ LoadedFile
    /\ Len(args.file.bytes) = args.fpga_ddr3_span
    /\ args.fpga_ddr3_span > 4
    /\ ret = <<0>>
    /\ RegionByte(ddr3, 4) = 170

-----------------------------------------------------------------------------
(* C26: after load_weights_to_ddr3 has completed, no operation of any      *)
(* inference writes the weight region: its contents are the same before    *)
(* and after every inference, whether the inference succeeds or times out. *)

\* load_weights_to_ddr3 has completed in this process
WeightsLoaded ==
    /\ call \in {"main", "fpga_inference"}
    /\ pc # "main"
    /\ Stderr("mmap_init failed") = << >>

C26_WeightRegionImmutable == [][WeightsLoaded => ddr3' = ddr3]_vars

\* the process ends after an inference that timed out and one that was
\* classified, the weights still in place
C26_Witness ==
    /\ WeightsLoaded
    /\ pc = "exit"
    /\ FailedBefore
    /\ \E n \in 1 .. Len(local.stdout) : local.stdout[n][1] \in {"->", "FPGA="}
    /\ ddr3 = LoadedNet(local.net, local.kind)
    /\ ddr3 # << >>

-----------------------------------------------------------------------------
(* C27: in files mode and directory mode an input whose preprocessing      *)
(* fails is reported and skipped without any accelerator invocation for    *)
(* it, and every other input of the batch is still processed, in order;    *)
(* one malformed item never aborts the batch.                              *)

\* the loop is at an input that preprocess_image rejects
AtRejectedInput ==
    /\ pc = "next_file"
    /\ local.idx < Len(local.items)
    /\ ~local.items[local.idx + 1].ok

\* the indices of the inputs reported on stderr and on stdout, in the order
\* of the reports
ReportedErr ==
    LET Is(e) == e[1] \in {"Skipping", "FPGA timeout"}
        r == SelectSeq(stderr, Is)
    IN  [n \in 1 .. Len(r) |-> r[n][2]]
ReportedOut ==
    LET Is(e) == e[1] = "->"
        r == SelectSeq(local.stdout, Is)
    IN  [n \in 1 .. Len(r) |-> r[n][2]]

Indices(q) == {q[n] : n \in 1 .. Len(q)}
Increasing(q) == \A m, n \in 1 .. Len(q) : m < n => q[m] < q[n]

\* mode_files or mode_dir has gone through its loop
BatchDone ==
    /\ pc = "exit"
    /\ local.mode \in {"files", "dir"}
    /\ Stderr("mmap_init failed") = << >>
    /\ Stderr("opendir") = << >>

\* every input has its one report: "Skipping" for every rejected one, the
\* class or "FPGA timeout" for every other, each stream in the order of the batch
EveryInputReported ==
    /\ Increasing(ReportedErr) /\ Increasing(ReportedOut)
    /\ Indices(ReportedErr) \cup Indices(ReportedOut) = 1 .. Len(local.items)
    /\ Indices(ReportedErr) \cap Indices(ReportedOut) = {}
    /\ \A n \in 1 .. Len(local.items) :
          ~local.items[n].ok <=>
              \E k \in 1 .. Len(stderr) : stderr[k][1] = "Skipping" /\ stderr[k][2] = n

C27_MalformedInputSkipped ==
    [][/\ (AtRejectedInput /\ <<call, pc, local, log, stderr>>' # <<call, pc, local, log, stderr>>)
            => /\ stderr' = Append(stderr, <<"Skipping", local.idx + 1>>)
               /\ UNCHANGED <<log, reg, act, res, hw, ddr3>>
               /\ pc' = "next_file"
               /\ local'.idx = local.idx + 1
       /\ BatchDone' => EveryInputReported']_vars

\* a batch of a rejected file followed by an accepted one has been gone
\* through: the first skipped, the second classified
C27_Witness ==
    /\ BatchDone
    /\ Len(local.items) = 2
    /\ ~local.items[1].ok /\ local.items[2].ok
    /\ stderr = << <<"Skipping", 1>> >>
    /\ ReportedOut = <<2>>

-----------------------------------------------------------------------------
(* C28: when the memory-mapped I/O setup fails (the open of the device or  *)
(* either mapping), mmap_init returns -1 and the program exits with code 1 *)
(* without any register read or write, any write of the weight region or   *)
(* any accelerator invocation having taken place.                          *)

\* mmap_init has failed in this process
MapFailed == \E n \in 1 .. Len(stderr) : stderr[n] \in {<<f>> : f \in MapFailures}

C28_MapFailureExitsUntouched ==
    /\ MapFailed =>
          /\ pc = "exit"
          /\ local.exit = <<1>>
          /\ log = << >>
          /\ ddr3 = << >>
          /\ reg = ResetRegs /\ res = ResetRes /\ hw = IdleHw
          /\ \A n \in DOMAIN act : act[n] = 0
          /\ local.stdout = << >>
    /\ (pc = "main") => ~MapFailed

\* the second mapping, of the weight region, has failed and the process has ended
C28_Witness ==
    /\ call = "main"
    /\ pc = "exit"
    /\ stderr = << <<"mmap ddr3">>, <<"mmap_init failed">> >>
    /\ local.exit = <<1>>
    /\ log = << >>

-----------------------------------------------------------------------------
(* bitnet_fpga.h: rms_norm_int8 and dequantize_results.  A float is a      *)
(* record [m, e] of value m * 10^e with a mantissa of four decimal digits  *)
(* (1000 <= |m| < FMant, or m = 0 for zero); every operation rounds its    *)
(* result to four digits, as the float operations of the source round to   *)
(* the 24 bits of theirs.  The inputs are finite and far from overflow.    *)

FMant == 10000

NormMaxK == 2

Abs(n) == IF n < 0 THEN -n ELSE n

\* a / b rounded to the nearest integer, halves away from zero (b > 0)
RoundDiv(a, b) == IF a >= 0 THEN (2 * a + b) \div (2 * b) ELSE -((2 * (-a) + b) \div (2 * b))

\* the float nearest to m * 10^e
RECURSIVE FNorm(_, _)
FNorm(m, e) ==
    IF m = 0 THEN [m |-> 0, e |-> 0]
    ELSE IF Abs(m) >= FMant THEN FNorm(RoundDiv(m, 10), e + 1)
    ELSE IF Abs(m) < FMant \div 10 THEN FNorm(m * 10, e - 1)
    ELSE [m |-> m, e |-> e]

FZero == FNorm(0, 0)
\* (float)n
FromInt(n) == FNorm(n, 0)
\* 1e-6f, 1e-5f, 1.0f, 127.0f, -128.0f
F1em6 == FNorm(1, -6)
F1em5 == FNorm(1, -5)
FOne == FNorm(1, 0)
F127 == FNorm(127, 0)
FNeg128 == FNorm(-128, 0)

FNeg(a) == [a EXCEPT !.m = -a.m]
\* fabsf
FAbs(a) == [a EXCEPT !.m = Abs(a.m)]

\* a + b: the smaller operand is lost when it lies below the last digit
FAdd(a, b) ==
    LET hi == IF a.e >= b.e THEN a ELSE b
        lo == IF a.e >= b.e THEN b ELSE a
    IN  IF a.m = 0 THEN b
        ELSE IF b.m = 0 THEN a
        ELSE IF hi.e - lo.e >= 6 THEN hi
        ELSE FNorm(hi.m * 10 ^ (hi.e - lo.e) + lo.m, lo.e)

FMul(a, b) == FNorm(a.m * b.m, a.e + b.e)

\* a / b for b # 0
FDiv(a, b) ==
    LET q == RoundDiv(Abs(a.m) * 100000, Abs(b.m))
    IN  FNorm(IF (a.m < 0) = (b.m < 0) THEN q ELSE -q, a.e - b.e - 5)

FGt(a, b) == FAdd(a, FNeg(b)).m > 0
FLt(a, b) == FAdd(a, FNeg(b)).m < 0

\* the largest r in lo .. hi with r * r <= n
RECURSIVE IsqrtIn(_, _, _)
IsqrtIn(n, lo, hi) ==
    IF lo >= hi THEN lo
    ELSE LET mid == (lo + hi + 1) \div 2
         IN  IF mid * mid <= n THEN IsqrtIn(n, mid, hi) ELSE IsqrtIn(n, lo, mid - 1)

\* sqrtf(a) for a >= 0
FSqrt(a) ==
    IF a.e % 2 = 0
    THEN FNorm(IsqrtIn(a.m * 10000, 0, 31622), (a.e - 4) \div 2)
    ELSE FNorm(IsqrtIn(a.m * 100000, 0, 31622), (a.e - 5) \div 2)

\* roundf(a) as an integer, for |a| < 10^6
FRound(a) ==
    IF a.e >= 0 THEN a.m * 10 ^ a.e
    ELSE IF a.e < -8 THEN 0
    ELSE RoundDiv(a.m, 10 ^ (-a.e))

\* for (i = 0; i < size; i++) sum_sq += x[i] * x[i]
RECURSIVE SumSq(_, _)
SumSq(x, n) == IF n = 0 THEN FZero ELSE FAdd(SumSq(x, n - 1), FMul(x[n - 1], x[n - 1]))

\* the maximum taken without fabsf
RECURSIVE MaxAbs_signed(_, _)
MaxAbs_signed(v, n) ==
    IF n = 0 THEN FZero
    ELSE LET before == MaxAbs_signed(v, n - 1)
         IN  IF FGt(v[n - 1], before) THEN v[n - 1] ELSE before

\* if (a > max_abs) max_abs = a, over normalized[0 .. n-1]
RECURSIVE MaxAbs(_, _)
MaxAbs(v, n) ==
    IF n = 0 THEN FZero
    ELSE LET before == MaxAbs(v, n - 1)
             a == FAbs(v[n - 1])
         IN  IF FGt(a, before) THEN a ELSE before

\* val = normalized[i] * scale_x, clamped to [-128, 127], and (int8_t)roundf(val)
QuantizeInt8(n, scale_x) ==
    LET val == FMul(n, scale_x)
        hi == IF FGt(val, F127) THEN F127 ELSE val
        lo == IF FLt(hi, FNeg128) THEN FNeg128 ELSE hi
    IN  I8(FRound(lo))

\* rms_norm_int8(x, norm_weight, size, out): out and the returned scale_x,
\* with the normalized vector and max_abs of the call
rms_norm_int8(x, norm_weight, size) ==
    LET sum_sq == SumSq(x, size)
        rms == FDiv(FOne, FSqrt(FAdd(FDiv(sum_sq, FromInt(size)), F1em6)))
        normalized == [n \in 0 .. size - 1 |-> FMul(FMul(x[n], rms), norm_weight[n])]
        max_abs == MaxAbs(normalized, size)
        scale_x == FDiv(F127, FAdd(max_abs, F1em5))
    IN  [normalized |-> normalized, max_abs |-> max_abs, scale_x |-> scale_x,
         out |-> [n \in 0 .. size - 1 |-> QuantizeInt8(normalized[n], scale_x)]]

\* inv_scale without the weight scale
dequantize_results_unscaled(fpga_out, size, scale_x, weight_scale) ==
    LET inv_scale == FDiv(FOne, scale_x)
    IN  [n \in 0 .. size - 1 |-> FMul(FromInt(fpga_out[n]), inv_scale)]

\* dequantize_results(fpga_out, size, scale_x, weight_scale, out)
dequantize_results(fpga_out, size, scale_x, weight_scale) ==
    LET inv_scale == FDiv(FOne, FMul(scale_x, weight_scale))
    IN  [n \in 0 .. size - 1 |-> FMul(FromInt(fpga_out[n]), inv_scale)]

\* 0, 1.0, -3.0 and 1e-6 as inputs; 1.0, 0.001 and -0.5 as norm weights;
\* 1.0 and 0.25 as weight scales
NormInputs == {FZero, FOne, FNorm(-3, 0), F1em6}
NormWeights == {FOne, FNorm(1, -3), FNorm(-5, -1)}
WeightScales == {FOne, FNorm(25, -2)}

NormArgs ==
    UNION {[x : [0 .. size - 1 -> NormInputs], norm_weight : [0 .. size - 1 -> NormWeights],
            size : {size}, weight_scale : WeightScales] : size \in 1 .. NormMaxK}

\* the call of rms_norm_int8
rms_norm_int8_call ==
    /\ call = "rms_norm_int8"
    /\ pc = "call"
    /\ local' = rms_norm_int8(args.x, args.norm_weight, args.size)
    /\ pc' = "quantized"
    /\ UNCHANGED <<call, args, i, rows_done, tile_m, timeout_us, wret, results, ret,
                   cycles_out, reg, act, res, hw, ddr3, log, stderr>>

\* the quantized vector as the accumulators of an identity layer, and the
\* call of dequantize_results on them with the scale rms_norm_int8 returned
dequantize_results_call ==
    /\ call = "rms_norm_int8"
    /\ pc = "quantized"
    /\ call' = "dequantize_results"
    /\ results' = dequantize_results(local.out, args.size, local.scale_x, args.weight_scale)
    /\ pc' = "done"
    /\ UNCHANGED <<args, local, i, rows_done, tile_m, timeout_us, wret, ret,
                   cycles_out, reg, act, res, hw, ddr3, log, stderr>>

NormInit ==
    /\ call = "rms_norm_int8"
    /\ args \in NormArgs
    /\ local = << >>
    /\ pc = "call"
    /\ i = 0 /\ rows_done = 0 /\ tile_m = 0 /\ timeout_us = 0
    /\ wret = << >>
    /\ ret = << >>
    /\ results = << >>
    /\ cycles_out = 0
    /\ reg = ResetRegs /\ res = ResetRes
    /\ act = [n \in 0 .. 0 |-> 0]
    /\ hw = IdleHw
    /\ ddr3 = << >>
    /\ log = << >>
    /\ stderr = << >>

NormNext ==
    \/ rms_norm_int8_call
    \/ dequantize_results_call

NormSpec == NormInit /\ [][NormNext]_vars

\* rms_norm_int8 has returned
Quantized == call \in {"rms_norm_int8", "dequantize_results"} /\ pc \in {"quantized", "done"}

\* the index of the first element of maximum normalized magnitude
MaxIndex ==
    CHOOSE n \in 0 .. args.size - 1 :
        /\ \A k \in 0 .. args.size - 1 :
              ~FGt(FAbs(local.normalized[k]), FAbs(local.normalized[n]))
        /\ \A k \in 0 .. n - 1 : FGt(FAbs(local.normalized[n]), FAbs(local.normalized[k]))

AllZeroInput == \A n \in 0 .. args.size - 1 : args.x[n] = FZero

\* a positive finite scale; every element clamp(round(normalized * scale),
\* -128, 127); all zeros for an all-zero input
QuantizedAsSpecified ==
    /\ local.scale_x.m > 0
    /\ local.max_abs = FAbs(local.normalized[MaxIndex])
    /\ \A n \in 0 .. args.size - 1 :
          /\ local.out[n] \in -128 .. 127
          /\ local.out[n] =
                ClampTo(FRound(FMul(local.normalized[n], local.scale_x)), -128, 127)
    /\ AllZeroInput => \A n \in 0 .. args.size - 1 : local.out[n] = 0

-----------------------------------------------------------------------------
(* C29 as claimed: for every input and norm-weight vector of length K >= 1 *)
(* rms_norm_int8 returns a positive finite scale and an int8 vector whose  *)
(* every element is clamp(round(normalized_i * scale), -128, 127), with    *)
(* the element of maximum normalized magnitude mapped to magnitude 127; an *)
(* all-zero input gives an all-zero output without division by zero.      *)

-----------------------------------------------------------------------------
(* C30: for activation scale s > 0 and weight scale w > 0, dequantizing    *)
(* the quantized vector passed through an identity accumulator (out_i =    *)
(* acc_i / (s * w) with acc_i the quantized element) recovers the          *)
(* normalized input within a bounded relative error proportional to 1/127: *)
(* every out_i * w differs from normalized_i by at most 1/127 of the scale *)
(* of the vector, max_abs + 1e-5.                                          *)

\* |out_n * w - normalized_n|
RoundTripError(n) ==
    FAbs(FAdd(FMul(results[n], args.weight_scale), FNeg(local.normalized[n])))

-----------------------------------------------------------------------------
(* C31: in fpga_bitlinear, when the chunk at row offset r times out while  *)
(* the accelerator is still executing it, the driver never takes a done    *)
(* signal or result-register values of the timed-out invocation as the     *)
(* completion or results of the following chunk: every chunk that does not *)
(* time out gets the values of its own rows.                               *)

\* the first and the last row of a chunk read from the result registers
\* hold what the accelerator computes for these rows of the matrix
ChunkHoldsOwnRows(st) ==
    \A j \in EdgeRows(st) :
        ResWord(Build(call), st.regs, j - st.from)
            = HwRowResult(Build(call), WholeJob, WrittenActs, j)

C31_NoStaleCompletion ==
    call = "fpga_bitlinear" =>
        \A n \in 1 .. Len(results) : ~results[n].zero => ChunkHoldsOwnRows(results[n])

-----------------------------------------------------------------------------
(* C32: in every call of fpga_bitlinear with M >= 1 each index j in [0, M) *)
(* of results is written exactly once, either with the value of result     *)
(* register j - r of the chunk starting at r that contains row j, or with  *)
(* 0 when that chunk timed out; no index >= M is written, and result       *)
(* registers are always read from chunk-relative index 0.                  *)

\* the stores so far are consecutive row ranges from row 0 that stay below
\* M, so that no index is written twice and none from M on
StoresConsecutive ==
    /\ \A c \in 1 .. Len(results) :
          /\ results[c].n >= 1
          /\ results[c].from = (IF c = 1 THEN 0 ELSE results[c - 1].from + results[c - 1].n)
          /\ results[c].from + results[c].n <= args.M
    /\ pc = "done" =>
          /\ Len(results) >= 1
          /\ results[Len(results)].from + results[Len(results)].n = args.M

\* a store is zeros exactly when its chunk timed out; the others hold the
\* result registers from register 0 on, as full words
StoresByOutcome ==
    \A c \in 1 .. Len(results) :
        LET st == results[c]
            timedOut == \E m \in 1 .. Len(stderr) : stderr[m][2] = st.from
        IN  /\ st.zero <=> timedOut
            /\ ~st.zero =>
                  /\ st.off = REG_RES_BASE /\ st.cast = "int32"
                  /\ \A j \in EdgeRows(st) :
                        BufAt(Build(call), results, j)
                            = ResWord(Build(call), st.regs, j - st.from)
            /\ st.zero => \A j \in EdgeRows(st) : BufAt(Build(call), results, j) = 0

\* the step that reads a chunk takes the registers as they are at the read,
\* tile_m of them from REG_RES_BASE
C32_ReadStep ==
    (call = "fpga_bitlinear" /\ pc = "waited" /\ wret = <<0>> /\ pc' # pc) =>
        /\ Len(results') = Len(results) + 1
        /\ SubSeq(results', 1, Len(results)) = results
        /\ results'[Len(results')].regs = res
        /\ results'[Len(results')].from = rows_done
        /\ results'[Len(results')].n = Min(FPGA_MAX_DIM_M, args.M - rows_done)
        /\ log'[Len(log')] = <<"rres", REG_RES_BASE, Min(FPGA_MAX_DIM_M, args.M - rows_done)>>

C32_EachIndexWrittenOnce ==
    /\ [][C32_ReadStep]_vars
    /\ [](call = "fpga_bitlinear" => StoresConsecutive /\ StoresByOutcome)

\* M = 1025: the first chunk timed out and is zeros, the second chunk (row
\* 1024) was read from result register 0
C32_Witness ==
    /\ call = "fpga_bitlinear" /\ pc = "done"
    /\ args.M = FPGA_MAX_DIM_M + 1
    /\ Len(results) = 2
    /\ results[1].zero /\ ~results[2].zero
    /\ results[2].from = FPGA_MAX_DIM_M /\ results[2].n = 1
    /\ results[2].off = REG_RES_BASE
    /\ BufAt(Build(call), results, FPGA_MAX_DIM_M) # 0

-----------------------------------------------------------------------------
(* fpga_bitlinear for every M, the non-positive ones included, with the    *)
(* driver running to its return.                                           *)

TermMs == {-1, 0} \cup TiledMs

TermArgs ==
    UNION {[activations : {ActVector(K)}, K : {K}, weight_base : {DDR3_BASE},
            M : TermMs, stride : {RowStride(K)}] : K \in 0 .. MaxK}

TermInit ==
    /\ call = "fpga_bitlinear" /\ pc = "bl_act" /\ args \in TermArgs
    /\ i = 0 /\ rows_done = 0 /\ tile_m = 0 /\ timeout_us = 0
    /\ wret = << >>
    /\ ret = << >>
    /\ local = << >>
    /\ results = << >>
    /\ cycles_out = 0
    /\ reg = ResetRegs /\ act = ResetAct /\ res = ResetRes
    /\ hw = IdleHw
    /\ ddr3 = << >>
    /\ log = << >>
    /\ stderr = << >>

TermNext ==
    \/ fpga_bitlinear_write_act
    \/ fpga_bitlinear_set_k
    \/ fpga_bitlinear_set_shift
    \/ fpga_bitlinear_tile_base
    \/ fpga_bitlinear_set_m
    \/ fpga_bitlinear_start
    \/ fpga_wait_done_poll
    \/ fpga_wait_done_expire
    \/ fpga_bitlinear_timeout
    \/ fpga_bitlinear_read
    \/ fpga_bitlinear_return
    \/ HwFinish

\* the driver is a sequential program that keeps executing; the accelerator
\* is under no obligation to finish
TermSpec ==
    /\ TermInit /\ [][TermNext]_vars
    /\ WF_vars(fpga_bitlinear_write_act)
    /\ WF_vars(fpga_bitlinear_set_k)
    /\ WF_vars(fpga_bitlinear_set_shift)
    /\ WF_vars(fpga_bitlinear_tile_base)
    /\ WF_vars(fpga_bitlinear_set_m)
    /\ WF_vars(fpga_bitlinear_start)
    /\ WF_vars(fpga_wait_done_poll)
    /\ WF_vars(fpga_wait_done_expire)
    /\ WF_vars(fpga_bitlinear_timeout)
    /\ WF_vars(fpga_bitlinear_read)
    /\ WF_vars(fpga_bitlinear_return)

(* C33: fpga_bitlinear terminates for every M and K and every pattern of   *)
(* done/timeout outcomes: it issues exactly ceil(M / FPGA_MAX_DIM_M) start *)
(* pulses when M >= 1 and none when M <= 0, in which case the activations, *)
(* DIM_K and SHIFT_AMT are still written.                                  *)

ExpectedStarts == IF args.M >= 1 THEN NumChunks(args.M) ELSE 0

\* the writes every call makes before its tile loop
PreambleWritten ==
    /\ \A n \in 0 .. args.K - 1 :
          \E e \in 1 .. Len(log) :
              log[e] = <<"w", REG_ACT_BASE + 4 * n, U8(args.activations[n])>>
    /\ \E e \in 1 .. Len(log) : log[e] = <<"w", REG_DIM_K, args.K>>
    /\ \E e \in 1 .. Len(log) : log[e] = <<"w", REG_SHIFT_AMT, 0>>

C33_TerminatesWithChunkStarts ==
    /\ <>(pc = "done")
    /\ [](Cardinality(StartPositions) <= ExpectedStarts)
    /\ [](pc = "done" =>
            /\ Cardinality(StartPositions) = ExpectedStarts
            /\ PreambleWritten
            /\ args.M <= 0 => results = << >>)

\* M = 1025: one chunk timed out, the other completed, two start pulses
C33_Witness ==
    /\ pc = "done"
    /\ args.M = FPGA_MAX_DIM_M + 1
    /\ Len(stderr) = 1
    /\ \E c \in 1 .. Len(results) : ~results[c].zero
    /\ Cardinality(StartPositions) = 2

\* M = -1: the call returned without a start pulse after writing the
\* activations, DIM_K and SHIFT_AMT
C33_NonPositiveReturns ==
    pc = "done" /\ args.M = -1 /\ args.K = MaxK /\ StartPositions = {} /\ Len(log) = MaxK + 2

-----------------------------------------------------------------------------
(* fpga_bitlinear at the largest dimensions of the register map.  The     *)
(* call is observed from the last SpanTail iterations of its activation    *)
(* loop on: the activation registers below i already hold their values,    *)
(* and log holds the accesses made from there.                             *)

\* 0x00200000, the span of the lightweight bridge mapping
LW_BRIDGE_SPAN == 2097152
BITNET_OFFSET == 0
FPGA_MAX_DIM_K == 2048

\* iterations of the activation loop that are observed
SpanTail == 2

SpanArgs ==
    UNION {[activations : {ActVector(K)}, K : {K}, weight_base : {DDR3_BASE},
            M : {1, FPGA_MAX_DIM_M, FPGA_MAX_DIM_M + 1}, stride : {RowStride(K)}]
           : K \in {1, FPGA_MAX_DIM_K - 1, FPGA_MAX_DIM_K}}

SpanInit ==
    /\ call = "fpga_bitlinear" /\ pc = "bl_act" /\ args \in SpanArgs
    /\ i = Max({0, args.K - SpanTail})
    /\ rows_done = 0 /\ tile_m = 0 /\ timeout_us = 0
    /\ wret = << >>
    /\ ret = << >>
    /\ local = << >>
    /\ results = << >>
    /\ cycles_out = 0
    /\ reg = ResetRegs
    /\ act = [n \in 0 .. args.K - 1 |-> IF n < i THEN U8(args.activations[n]) ELSE 0]
    /\ res = ResetRes
    /\ hw = IdleHw
    /\ ddr3 = << >>
    /\ log = << >>
    /\ stderr = << >>

SpanSpec == SpanInit /\ [][TermNext]_vars

(* C34: with the register map of bitnet_fpga.h, for every K up to          *)
(* FPGA_MAX_DIM_K and chunk size up to FPGA_MAX_DIM_M every register       *)
(* access of fpga_bitlinear falls inside the 2 MB bridge span, and the     *)
(* activation offsets 0x80 + 4*i (i < K), the result offsets 0x4000 + 4*i  *)
(* (i < chunk size) and the control registers 0x00..0x18 are pairwise      *)
(* disjoint.                                                               *)

\* byte ranges [lo, hi) of the register file
CtrlRange == [lo |-> REG_CTRL, hi |-> REG_PERF_CYCLES + 4]
ActRange(K) == [lo |-> REG_ACT_BASE, hi |-> REG_ACT_BASE + 4 * K]
ResRange(n) == [lo |-> REG_RES_BASE, hi |-> REG_RES_BASE + 4 * n]

Within(r, s) == s.lo <= r.lo /\ r.hi <= s.hi
Disjoint(r, s) == r.hi <= s.lo \/ s.hi <= r.lo
InSpan(r) == 0 <= BITNET_OFFSET + r.lo /\ BITNET_OFFSET + r.hi <= LW_BRIDGE_SPAN

\* the bytes a bus access touches: one word, or n words for a result read
AccessRange(e) == [lo |-> e[2], hi |-> e[2] + 4 * (IF e[1] = "rres" THEN e[3] ELSE 1)]

\* each access of the call lies in the span and in the range of its kind:
\* the activation loop in the activation range, a result read in the result
\* range of its chunk, every other access in the control registers
C34_Access ==
    Len(log') = Len(log) + 1 =>
        LET e == log'[Len(log')]
            r == AccessRange(e)
        IN  /\ InSpan(r)
            /\ IF pc = "bl_act" /\ i < args.K THEN Within(r, ActRange(args.K))
               ELSE IF e[1] = "rres"
                    THEN r = ResRange(tile_m) /\ Within(r, ResRange(FPGA_MAX_DIM_M))
               ELSE Within(r, CtrlRange)
            /\ e[1] = "rres" =>
                  Disjoint(r, ActRange(args.K)) /\ Disjoint(r, CtrlRange)

RangesDisjoint ==
    /\ args.K <= FPGA_MAX_DIM_K /\ tile_m <= FPGA_MAX_DIM_M
    /\ Disjoint(CtrlRange, ActRange(args.K))
    /\ Disjoint(ActRange(args.K), ResRange(FPGA_MAX_DIM_M))
    /\ Disjoint(CtrlRange, ResRange(FPGA_MAX_DIM_M))
    /\ InSpan(CtrlRange) /\ InSpan(ActRange(args.K)) /\ InSpan(ResRange(FPGA_MAX_DIM_M))

C34_AccessesInSpanAndDisjoint ==
    /\ [][C34_Access]_vars
    /\ []RangesDisjoint

\* K = 2048 and a full chunk: the last activation register (0x207C) was
\* written and result registers 0 .. 1023 were read
C34_Witness ==
    /\ pc = "done"
    /\ args.K = FPGA_MAX_DIM_K /\ args.M = FPGA_MAX_DIM_M
    /\ \E e \in 1 .. Len(log) :
          log[e][1] = "w" /\ log[e][2] = REG_ACT_BASE + 4 * (FPGA_MAX_DIM_K - 1)
    /\ log[Len(log)] = <<"rres", REG_RES_BASE, FPGA_MAX_DIM_M>>

-----------------------------------------------------------------------------
(* One activation of every int8 value through run_test (one row with the   *)
(* single weight +1, shift 0) and through the activation loop of           *)
(* fpga_bitlinear.                                                         *)

ByteArgs ==
    {[wmat |-> WeightMatrix(1, 1), activations |-> [n \in {0} |-> x], M |-> 1, K |-> 1,
      shift |-> 0, weight_base |-> DDR3_BASE, stride |-> RowStride(1)] : x \in -128 .. 127}

ByteInit ==
    /\ \/ call = "run_test" /\ pc = "write_weight_matrix" /\ local = TileLoopStart
       \/ call = "fpga_bitlinear" /\ pc = "bl_act" /\ local = << >>
    /\ args \in ByteArgs
    /\ i = 0 /\ rows_done = 0 /\ tile_m = 0 /\ timeout_us = 0
    /\ wret = << >>
    /\ ret = << >>
    /\ results = << >>
    /\ cycles_out = 0
    /\ reg = ResetRegs /\ act = ResetAct /\ res = ResetRes
    /\ hw = IdleHw
    /\ ddr3 = << >>
    /\ log = << >>
    /\ stderr = << >>

ByteNext ==
    \/ write_weight_matrix_tile
    \/ write_weight_matrix_return
    \/ run_test_config
    \/ write_activations
    \/ write_activations_return
    \/ run_test_start
    \/ run_test_timeout
    \/ run_test_read
    \/ fpga_bitlinear_write_act
    \/ fpga_bitlinear_set_k
    \/ fpga_bitlinear_set_shift
    \/ fpga_bitlinear_tile_base
    \/ fpga_bitlinear_set_m
    \/ fpga_bitlinear_start
    \/ fpga_bitlinear_timeout
    \/ fpga_bitlinear_read
    \/ fpga_bitlinear_return
    \/ fpga_wait_done_poll
    \/ fpga_wait_done_expire
    \/ HwFinish

ByteSpec == ByteInit /\ [][ByteNext]_vars

(* C35: write_activations and the activation loop of fpga_bitlinear write  *)
(* for each int8 activation a 32-bit value in [0, 255] whose low 8 bits    *)
(* are the two's-complement byte and whose upper 24 bits are zero, and     *)
(* read_results returns the low 8 bits of the result register as a signed  *)
(* 8-bit value; every value in [-128, 127] passes through both directions  *)
(* unchanged.                                                              *)

\* the two's-complement byte of an int8 value
TwosComplementByte(x) == IF x < 0 THEN x + 256 ELSE x

\* the writes to the activation registers so far
ActWrites == {e \in 1 .. Len(log) : log[e][1] = "w" /\ log[e][2] >= REG_ACT_BASE}

ActivationWrittenAsByte ==
    /\ \A e \in ActWrites :
          /\ log[e][3] \in 0 .. 255
          /\ log[e][3] = TwosComplementByte(args.activations[ActIndex(log[e][2])])
    /\ i = args.K /\ pc \notin {"write_weight_matrix", "weight_base", "dim_m", "dim_k", "shift_amt"}
          => /\ ActWrites # {}
             /\ I8(act[0]) = args.activations[0]

\* run_test returned 0: the entry of results is the low byte of result
\* register 0 read as signed, which for the weight +1 is the activation
ResultReadAsSignedByte ==
    (call = "run_test" /\ pc = "done" /\ ret = <<0>>) =>
        LET w == ResWord(Build(call), results[1].regs, 0)
            out == BufAt(Build(call), results, 0)
        IN  /\ out \in -128 .. 127
            /\ out % 256 = w % 256
            /\ w = args.activations[0]
            /\ out = args.activations[0]

C35_BytePassesUnchanged == ActivationWrittenAsByte /\ ResultReadAsSignedByte

\* the activation -128 went out as 0x80 and came back from run_test as -128
C35_Witness ==
    /\ call = "run_test" /\ pc = "done" /\ ret = <<0>>
    /\ args.activations[0] = -128
    /\ \E e \in ActWrites : log[e][3] = 128
    /\ BufAt(Build(call), results, 0) = -128

\* fpga_bitlinear wrote the activation -1 as 0xFF
C35_BitlinearWitness ==
    /\ call = "fpga_bitlinear" /\ pc = "done"
    /\ args.activations[0] = -1
    /\ \E e \in ActWrites : log[e][3] = 255

-----------------------------------------------------------------------------
(* argmax_int8 on its own, over every buffer of a few int8 values, next to *)
(* the inferences of InfSpec.                                              *)

\* longest buffer
ArgMaxLen == 3

ArgVals == {-128, -1, 0, 127}

ArgInit ==
    /\ call = "argmax_int8"
    /\ \E n \in 1 .. ArgMaxLen : \E buf \in [0 .. n - 1 -> ArgVals] : args = [buf |-> buf, n |-> n]
    /\ pc = "argmax_int8"
    /\ local = << >>
    /\ i = 0 /\ rows_done = 0 /\ tile_m = 0 /\ timeout_us = 0
    /\ wret = << >>
    /\ ret = << >>
    /\ results = << >>
    /\ cycles_out = 0
    /\ reg = ResetRegs /\ act = ResetAct /\ res = ResetRes
    /\ hw = IdleHw
    /\ ddr3 = << >>
    /\ log = << >>
    /\ stderr = << >>

\* return argmax_int8(buf, n)
argmax_int8_call ==
    /\ call = "argmax_int8"
    /\ pc = "argmax_int8"
    /\ ret' = <<argmax_int8(args.buf, args.n)>>
    /\ pc' = "done"
    /\ UNCHANGED <<call, args, local, i, rows_done, tile_m, timeout_us, wret, results,
                   cycles_out, reg, act, res, hw, ddr3, log, stderr>>

ClassInit == InfInit \/ ArgInit

ClassNext == InfNext \/ argmax_int8_call

ClassSpec == ClassInit /\ [][ClassNext]_vars

(* C36: for every non-empty int8 buffer of length n, argmax_int8 returns   *)
(* the smallest index at which the maximum occurs, an index in [0, n-1];   *)
(* so an fpga_inference that succeeds returns a class in [0, L3_M - 1],    *)
(* and it returns -1 only when a stage timed out.                          *)

\* b is the first index of buf, of length n, that holds its maximum
FirstMaximum(buf, n, b) ==
    /\ b \in 0 .. n - 1
    /\ \A j \in 0 .. n - 1 : buf[j] <= buf[b]
    /\ \A j \in 0 .. b - 1 : buf[j] < buf[b]

ArgmaxIsFirstMaximum ==
    (call = "argmax_int8" /\ pc = "done") => FirstMaximum(args.buf, args.n, ret[1])

InferenceClassInRange ==
    (call = "fpga_inference" /\ local.pred # << >>) =>
        IF LayerTimeouts = << >>
        THEN /\ local.pred[1] \in 0 .. local.net.L3_M - 1
             /\ FirstMaximum(StageOut(3), local.net.L3_M, local.pred[1])
        ELSE local.pred = <<-1>>

C36_ArgmaxClassInRange == ArgmaxIsFirstMaximum /\ InferenceClassInRange

\* the maximum occurs twice and not at index 0: the first occurrence is returned
C36_Witness ==
    /\ call = "argmax_int8" /\ pc = "done"
    /\ args.n = 3
    /\ args.buf[0] = -1 /\ args.buf[1] = 127 /\ args.buf[2] = 127
    /\ ret = <<1>>

\* an inference of a two-class network returned class 1 without a timeout
C36_InferenceWitness ==
    /\ call = "fpga_inference" /\ pc = "returned"
    /\ local.net.L3_M = 2
    /\ LayerTimeouts = << >>
    /\ local.pred = <<1>>

-----------------------------------------------------------------------------
(* One iteration of mode_benchmark: fpga_inference of a test image, then   *)
(* arm_inference of the same image over l1_weights, l2_weights and         *)
(* l3_weights, the unpacked weights of the network in DDR3.                *)

\* compute_expected_row(&weights[row * K], acts, K, shift) over the weights
\* of a layer: the 32-bit sum of the products, then shift and clamp
RECURSIVE ArmRowAcc(_, _, _, _, _)
ArmRowAcc(kind, layer, row, acts, k) ==
    IF k = 0 THEN 0
    ELSE AddU32(ArmRowAcc(kind, layer, row, acts, k - 1),
                NetWeight(kind, layer, row, k - 1) * acts[k - 1])

\* for (row = 0; row < M; row++) results[row] = compute_expected_row(...)
arm_matvec(kind, layer, acts, M, K, shift) ==
    [row \in 0 .. M - 1 |-> ExpectedRow(ArmRowAcc(kind, layer, row, acts, K), shift)]

\* mutant of arm_inference: relu_int8 is left out after the first layer
arm_inference_no_relu(net, kind, image) ==
    LET buf1 == arm_matvec(kind, 1, image, net.L1_M, net.L1_K, net.L1_SHIFT)
        buf2 == relu_int8(arm_matvec(kind, 2, buf1, net.L2_M, net.L2_K, net.L2_SHIFT),
                          net.L2_M)
        buf3 == arm_matvec(kind, 3, buf2, net.L3_M, net.L3_K, net.L3_SHIFT)
    IN  argmax_int8(buf3, net.L3_M)

\* arm_matvec, relu_int8, arm_matvec, relu_int8, arm_matvec, argmax_int8
arm_inference(net, kind, image) ==
    LET buf1 == relu_int8(arm_matvec(kind, 1, image, net.L1_M, net.L1_K, net.L1_SHIFT),
                          net.L1_M)
        buf2 == relu_int8(arm_matvec(kind, 2, buf1, net.L2_M, net.L2_K, net.L2_SHIFT),
                          net.L2_M)
        buf3 == arm_matvec(kind, 3, buf2, net.L3_M, net.L3_K, net.L3_SHIFT)
    IN  argmax_int8(buf3, net.L3_M)

\* the loop body of mode_benchmark after fpga_inference: "FPGA TIMEOUT" and
\* continue when fpga_pred < 0, else arm_inference of the image and the
\* line with both predictions and OK or MISMATCH
mode_benchmark_compare ==
    /\ call = "fpga_inference"
    /\ pc = "returned"
    /\ local.mode = "benchmark"
    /\ IF local.pred[1] < 0
       THEN local' = [local EXCEPT !.stdout = Append(local.stdout,
                                                     <<"FPGA TIMEOUT", local.idx>>)]
       ELSE LET arm_pred == arm_inference(local.net, local.kind, local.image)
            IN  local' =
                  [local EXCEPT
                     !.arm_pred = <<arm_pred>>,
                     !.stdout = Append(local.stdout,
                                       <<IF local.pred[1] = arm_pred THEN "OK" ELSE "MISMATCH",
                                         local.idx, local.pred[1], arm_pred>>)]
    /\ pc' = "next_file"
    /\ UNCHANGED <<call, args, i, rows_done, tile_m, timeout_us, wret, results, ret,
                   cycles_out, reg, act, res, hw, ddr3, log, stderr>>

ArmInit ==
    /\ call = "fpga_inference"
    /\ \E net \in Nets : \E image \in Images(net.L1_K) : \E kind \in NetKinds :
          /\ local = [mode |-> "benchmark", idx |-> 1, net |-> net, kind |-> kind,
                      image |-> image, stage |-> 1, bufs |-> << >>, layer_cycles |-> << >>,
                      pred |-> << >>, arm_pred |-> << >>, stdout |-> << >>, count |-> 0]
          /\ args = LayerCall(net, 1, image)
          /\ ddr3 = LoadedNet(net, kind)
    /\ pc = "write_activations"
    /\ i = 0 /\ rows_done = 0 /\ tile_m = 0 /\ timeout_us = 0
    /\ wret = << >>
    /\ ret = << >>
    /\ results = << >>
    /\ cycles_out = 0
    /\ reg = ResetRegs /\ res = ResetRes
    /\ act = [n \in 0 .. InfMaxDim - 1 |-> 0]
    /\ hw = IdleHw
    /\ log = << >>
    /\ stderr = << >>

ArmNext ==
    \/ write_activations
    \/ write_activations_return
    \/ fpga_layer_config
    \/ fpga_layer_start
    \/ fpga_wait_done_poll
    \/ fpga_wait_done_expire
    \/ fpga_layer_timeout
    \/ fpga_layer_read
    \/ fpga_inference_relu
    \/ fpga_inference_argmax
    \/ fpga_inference_abort
    \/ mode_benchmark_compare
    \/ HwFinish

ArmSpec == ArmInit /\ [][ArmNext]_vars

(* C37: when every accelerator invocation completes without timeout and    *)
(* returns for each row the value compute_expected_row gives, fpga_inference *)
(* and arm_inference return the same class for every input image: the same *)
(* three matrix-vector products, the same ReLU after layers 1 and 2, the   *)
(* same arg-max.                                                           *)

\* the activations fpga_inference gave to stage n
StageIn(n) == IF n = 1 THEN local.image ELSE local.bufs[n - 1]

\* every stage ran to completion and its rows are those of compute_expected_row
HwAsExpected ==
    /\ LayerTimeouts = << >>
    /\ Len(res) = 3 /\ Len(local.bufs) = 3
    /\ \A n \in 1 .. 3 :
          LET c == LayerCall(local.net, n, << >>)
          IN  StageOut(n) = arm_matvec(local.kind, n, StageIn(n), c.M, c.K, c.shift)

C37_FpgaMatchesArm ==
    (pc = "next_file" /\ local.pred # <<-1>> /\ HwAsExpected) =>
        /\ local.arm_pred = local.pred
        /\ local.stdout[Len(local.stdout)][1] = "OK"

\* an image for which both inferences gave class 1, with a negative output
\* of Layer1 that was rectified
C37_Witness ==
    /\ pc = "next_file"
    /\ HwAsExpected
    /\ local.pred = <<1>> /\ local.arm_pred = <<1>>
    /\ \E j \in DOMAIN StageOut(1) : StageOut(1)[j] < 0

\* the premise is not vacuous in the other direction: no inference of the
\* model that returned a class has rows that differ from compute_expected_row
ArmPremiseAlways == (pc = "next_file" /\ local.pred # <<-1>>) => HwAsExpected

-----------------------------------------------------------------------------
(* load_weights_to_ddr3 step by step, a memcpy for each layer, followed by *)
(* an fpga_inference over the region it filled.                            *)

\* Ln_DDR3_BYTES
NetLayerBytes(net, n) ==
    IF n = 1 THEN LayerBytes(net.L1_M, net.L1_K)
    ELSE IF n = 2 THEN LayerBytes(net.L2_M, net.L2_K)
    ELSE LayerBytes(net.L3_M, net.L3_K)

\* word w of ln_packed: the tiles of layer n as pack_weights packs them
PackedWord(net, kind, n, w) ==
    LET K == IF n = 1 THEN net.L1_K ELSE IF n = 2 THEN net.L2_K ELSE net.L3_K
        words == TC_BYTES_PER_TILE \div 4
        tile == w \div words
        row == tile \div TilesPerRow(K, NUM_PES)
        col == (tile % TilesPerRow(K, NUM_PES)) * NUM_PES
        chunk == [q \in 0 .. NUM_PES - 1 |->
                     IF col + q < K THEN NetWeight(kind, n, row, col + q) ELSE 0]
    IN  pack_weights(chunk)[w % words]

\* the memcpy of one layer for a given advance of offset
CopyLayer(n, advance) ==
    LET bytes == NetLayerBytes(local.net, n)
        words == local.offset .. local.offset + (bytes \div 4) - 1
    IN  /\ ddr3' = [w \in (DOMAIN ddr3) \cup words |->
                       IF w \in words
                       THEN PackedWord(local.net, local.kind, n, w - local.offset)
                       ELSE ddr3[w]]
        /\ local' = [local EXCEPT !.offsets = Append(local.offsets, local.offset * 4),
                                  !.offset = local.offset + advance]

\* mutant of load_weights_layer: offset is not advanced past the layer
load_weights_layer_in_place ==
    /\ call = "load_weights_to_ddr3"
    /\ pc \in {"load_l1", "load_l2", "load_l3"}
    /\ CopyLayer(Len(local.offsets) + 1, 0)
    /\ pc' = IF pc = "load_l1" THEN "load_l2" ELSE IF pc = "load_l2" THEN "load_l3"
             ELSE "loaded"
    /\ UNCHANGED <<call, args, i, rows_done, tile_m, timeout_us, wret, results, ret,
                   cycles_out, reg, act, res, hw, log, stderr>>

\* ddr3_ln_offset = offset * 4; memcpy(&g_ddr3[offset], ln_packed, Ln_DDR3_BYTES);
\* offset += Ln_DDR3_BYTES / 4
load_weights_layer ==
    /\ call = "load_weights_to_ddr3"
    /\ pc \in {"load_l1", "load_l2", "load_l3"}
    /\ CopyLayer(Len(local.offsets) + 1, NetLayerBytes(local.net, Len(local.offsets) + 1) \div 4)
    /\ pc' = IF pc = "load_l1" THEN "load_l2" ELSE IF pc = "load_l2" THEN "load_l3"
             ELSE "loaded"
    /\ UNCHANGED <<call, args, i, rows_done, tile_m, timeout_us, wret, results, ret,
                   cycles_out, reg, act, res, hw, log, stderr>>

\* load_weights_to_ddr3 returns; later the call of fpga_inference for an image
load_weights_return ==
    /\ call = "load_weights_to_ddr3"
    /\ pc = "loaded"
    /\ call' = "fpga_inference"
    /\ pc' = "write_activations"
    /\ UNCHANGED <<args, local, i, rows_done, tile_m, timeout_us, wret, results, ret,
                   cycles_out, reg, act, res, hw, ddr3, log, stderr>>

LayoutInit ==
    /\ call = "load_weights_to_ddr3"
    /\ \E net \in Nets : \E image \in Images(net.L1_K) : \E kind \in NetKinds :
          /\ local = [mode |-> "files", idx |-> 1, net |-> net, kind |-> kind,
                      image |-> image, stage |-> 1, bufs |-> << >>, layer_cycles |-> << >>,
                      pred |-> << >>, stdout |-> << >>, count |-> 0,
                      offset |-> 0, offsets |-> << >>]
          /\ args = LayerCall(net, 1, image)
    /\ pc = "load_l1"
    /\ i = 0 /\ rows_done = 0 /\ tile_m = 0 /\ timeout_us = 0
    /\ wret = << >>
    /\ ret = << >>
    /\ results = << >>
    /\ cycles_out = 0
    /\ reg = ResetRegs /\ res = ResetRes
    /\ act = [n \in 0 .. InfMaxDim - 1 |-> 0]
    /\ hw = IdleHw
    /\ ddr3 = << >>
    /\ log = << >>
    /\ stderr = << >>

LayoutNext ==
    \/ load_weights_layer
    \/ load_weights_return
    \/ InfNext

LayoutSpec == LayoutInit /\ [][LayoutNext]_vars

(* C38: load_weights_to_ddr3 places the three layers back to back: for     *)
(* layer byte sizes that are multiples of the tile size, layer 1 is at     *)
(* byte offset 0, layer 2 at L1_DDR3_BYTES and layer 3 at L1_DDR3_BYTES +  *)
(* L2_DDR3_BYTES, the byte ranges are pairwise disjoint, and the           *)
(* WEIGHT_BASE fpga_inference writes for each layer is DDR3_BASE plus that *)
(* layer's recorded offset.                                                *)

WholeTiles == \A n \in 1 .. 3 : NetLayerBytes(local.net, n) % TC_BYTES_PER_TILE = 0

\* the recorded offsets are the sums of the sizes of the layers before
BackToBack ==
    /\ Len(local.offsets) >= 1 => local.offsets[1] = 0 /\ local.offsets[1] = ddr3_l1_offset
    /\ Len(local.offsets) >= 2 =>
          /\ local.offsets[2] = NetLayerBytes(local.net, 1)
          /\ local.offsets[2] = ddr3_l2_offset(local.net)
    /\ Len(local.offsets) >= 3 =>
          /\ local.offsets[3] = NetLayerBytes(local.net, 1) + NetLayerBytes(local.net, 2)
          /\ local.offsets[3] = ddr3_l3_offset(local.net)

\* no two layers share a byte, and while load_weights_to_ddr3 runs and at
\* its return each layer copied so far still holds its own words
LayersDisjoint ==
    /\ \A a, b \in 1 .. Len(local.offsets) :
          a < b => local.offsets[a] + NetLayerBytes(local.net, a) <= local.offsets[b]
    /\ call = "load_weights_to_ddr3" =>
          /\ \A n \in 1 .. Len(local.offsets) :
                \A w \in 0 .. (NetLayerBytes(local.net, n) \div 4) - 1 :
                    ddr3[(local.offsets[n] \div 4) + w]
                        = PackedWord(local.net, local.kind, n, w)
          /\ pc = "loaded" => ddr3 = LoadedNet(local.net, local.kind)

\* the n-th WEIGHT_BASE write of the inference is DDR3_BASE + the offset
\* recorded for layer n
WeightBaseFromRecorded ==
    \A n \in 1 .. Len(WritesTo(REG_WEIGHT_BASE)) :
        /\ n <= Len(local.offsets)
        /\ WritesTo(REG_WEIGHT_BASE)[n][3] = DDR3_BASE + local.offsets[n]

C38_LayersBackToBack ==
    WholeTiles => BackToBack /\ LayersDisjoint /\ WeightBaseFromRecorded

\* layers of 48, 32 and 16 bytes at 0, 48 and 80, and an inference that
\* wrote the three weight bases
C38_Witness ==
    /\ call = "fpga_inference" /\ pc = "returned"
    /\ local.offsets = <<0, 48, 80>>
    /\ Len(WritesTo(REG_WEIGHT_BASE)) = 3
    /\ WritesTo(REG_WEIGHT_BASE)[3][3] = DDR3_BASE + 80

-----------------------------------------------------------------------------
(* fpga_init and fpga_cleanup in any order.  local holds the three globals *)
(* (fpga_devmem_fd, fpga_lw_bridge, fpga_ddr3) and what the process asked  *)
(* of the system: the descriptors and mappings it acquired, numbered in    *)
(* the order of acquisition, and the close and munmap calls it made.  A    *)
(* pointer is 0 for NULL, -1 for MAP_FAILED, else the number of a mapping. *)

\* calls in a sequence
MaxCalls == 3

NULL == 0
MAP_FAILED == -1

\* the number the next descriptor or mapping gets
NextHandle == Len(local.acquired) + 1

ResVarsUnchanged ==
    UNCHANGED <<args, i, rows_done, tile_m, timeout_us, wret, results, cycles_out,
                reg, act, res, hw, ddr3, log, stderr>>

\* open("/dev/mem") fails: perror, return -1
fpga_init_open_fail ==
    /\ pc = "idle" /\ local.calls < MaxCalls
    /\ local' = [local EXCEPT !.fpga_devmem_fd = -1, !.calls = local.calls + 1]
    /\ call' = "fpga_init" /\ ret' = <<-1>>
    /\ UNCHANGED pc
    /\ ResVarsUnchanged

\* the first mmap fails: perror, close(fpga_devmem_fd), return -1
fpga_init_lw_bridge_fail ==
    /\ pc = "idle" /\ local.calls < MaxCalls
    /\ local' = [local EXCEPT !.fpga_devmem_fd = NextHandle,
                              !.fpga_lw_bridge = MAP_FAILED,
                              !.acquired = Append(local.acquired, "fd"),
                              !.released = Append(local.released, NextHandle),
                              !.calls = local.calls + 1]
    /\ call' = "fpga_init" /\ ret' = <<-1>>
    /\ UNCHANGED pc
    /\ ResVarsUnchanged

\* the second mmap fails: perror, munmap(fpga_lw_bridge), close(fpga_devmem_fd), return -1
fpga_init_ddr3_fail ==
    /\ pc = "idle" /\ local.calls < MaxCalls
    /\ local' = [local EXCEPT !.fpga_devmem_fd = NextHandle,
                              !.fpga_lw_bridge = NextHandle + 1,
                              !.fpga_ddr3 = MAP_FAILED,
                              !.acquired = local.acquired \o <<"fd", "map">>,
                              !.released = local.released \o <<NextHandle + 1, NextHandle>>,
                              !.calls = local.calls + 1]
    /\ call' = "fpga_init" /\ ret' = <<-1>>
    /\ UNCHANGED pc
    /\ ResVarsUnchanged

\* open and both mmap calls succeed: return 0
fpga_init_ok ==
    /\ pc = "idle" /\ local.calls < MaxCalls
    /\ local' = [local EXCEPT !.fpga_devmem_fd = NextHandle,
                              !.fpga_lw_bridge = NextHandle + 1,
                              !.fpga_ddr3 = NextHandle + 2,
                              !.acquired = local.acquired \o <<"fd", "map", "map">>,
                              !.calls = local.calls + 1]
    /\ call' = "fpga_init" /\ ret' = <<0>>
    /\ UNCHANGED pc
    /\ ResVarsUnchanged

\* munmap(fpga_ddr3) and munmap(fpga_lw_bridge) when the pointer is neither
\* NULL nor MAP_FAILED, close(fpga_devmem_fd) when it is >= 0; the globals
\* keep their values
fpga_cleanup ==
    /\ pc = "idle" /\ local.calls < MaxCalls
    /\ local' = [local EXCEPT
                   !.released =
                       local.released
                       \o (IF local.fpga_ddr3 # NULL /\ local.fpga_ddr3 # MAP_FAILED
                           THEN <<local.fpga_ddr3>> ELSE << >>)
                       \o (IF local.fpga_lw_bridge # NULL /\ local.fpga_lw_bridge # MAP_FAILED
                           THEN <<local.fpga_lw_bridge>> ELSE << >>)
                       \o (IF local.fpga_devmem_fd >= 0
                           THEN <<local.fpga_devmem_fd>> ELSE << >>),
                   !.calls = local.calls + 1]
    /\ call' = "fpga_cleanup" /\ ret' = << >>
    /\ UNCHANGED pc
    /\ ResVarsUnchanged

ResInit ==
    /\ call = "main" /\ pc = "idle"
    /\ local = [fpga_devmem_fd |-> -1, fpga_lw_bridge |-> NULL, fpga_ddr3 |-> NULL,
                acquired |-> << >>, released |-> << >>, calls |-> 0]
    /\ args = << >>
    /\ i = 0 /\ rows_done = 0 /\ tile_m = 0 /\ timeout_us = 0
    /\ wret = << >>
    /\ ret = << >>
    /\ results = << >>
    /\ cycles_out = 0
    /\ reg = ResetRegs /\ act = ResetAct /\ res = ResetRes
    /\ hw = IdleHw
    /\ ddr3 = << >>
    /\ log = << >>
    /\ stderr = << >>

ResNext ==
    \/ fpga_init_open_fail
    \/ fpga_init_lw_bridge_fail
    \/ fpga_init_ddr3_fail
    \/ fpga_init_ok
    \/ fpga_cleanup

ResSpec == ResInit /\ [][ResNext]_vars

\* how often descriptor or mapping h was closed or unmapped
TimesReleased(h) == Cardinality({n \in 1 .. Len(local.released) : local.released[n] = h})

\* nothing is closed or unmapped a second time
NoDoubleRelease == \A h \in 1 .. Len(local.acquired) : TimesReleased(h) <= 1

\* a failed fpga_init leaves nothing it acquired open
FailedInitReleasesAll ==
    (call = "fpga_init" /\ ret = <<-1>>) =>
        \A h \in 1 .. Len(local.acquired) :
            (h >= local.fpga_devmem_fd /\ local.fpga_devmem_fd >= 0) => TimesReleased(h) >= 1

(* C39: in every sequence of fpga_init and fpga_cleanup calls, fpga_init   *)
(* failing part-way and fpga_cleanup called afterwards or twice included,  *)
(* every file descriptor and mapping acquired is released exactly once:    *)
(* none is leaked on a failure path of fpga_init and none is unmapped or   *)
(* closed a second time.                                                   *)
C39_ReleasedExactlyOnce == NoDoubleRelease /\ FailedInitReleasesAll

====
